---- MODULE Spec2Model ----
(***************************************************************************)
(* A model of ufw-log-viewer: the line parser (parser.rs), the address and *)
(* interface classifier (net.rs), the filter engine and the live source    *)
(* sync of App (main.rs).                                                  *)
(*                                                                         *)
(* Text is a sequence of one-character strings, so that searching,         *)
(* splitting, trimming and case folding are computed and not assumed.      *)
(***************************************************************************)
EXTENDS Integers, Sequences, FiniteSets, TLC

\* Option<T>: None is the empty sequence, Some(x) the one-element sequence
None == <<>>

Some(x) == <<x>>

\* Option::unwrap_or
unwrap_or(opt, default) == IF opt = None THEN default ELSE opt[1]

(***************************************************************************)
(* Bounds of the model.                                                    *)
(***************************************************************************)
\* the longest file (in lines) the external writer produces
MaxFileLen == 2
\* modification times the file system reports are 0..MaxMtime
MaxMtime == 1
\* the clock advances in steps of 1/TicksPerSecond second
TicksPerSecond == 1

(***************************************************************************)
(* str helpers (the Rust standard library operations the code calls).      *)
(***************************************************************************)
Min(a, b) == IF a < b THEN a ELSE b

\* usize::saturating_sub
SatSub(a, b) == IF a > b THEN a - b ELSE 0

\* the least and the greatest element of a non-empty set of integers
MinOf(S) == CHOOSE i \in S : \A j \in S : i <= j

MaxOf(S) == CHOOSE i \in S : \A j \in S : i >= j

Whitespace == {" ", "\t"}

\* u8::to_ascii_uppercase: a lowercase letter becomes its uppercase form, any
\* other character is kept
UpperOf(c) ==
    CASE c = "a" -> "A" [] c = "b" -> "B" [] c = "c" -> "C" [] c = "d" -> "D"
      [] c = "e" -> "E" [] c = "f" -> "F" [] c = "g" -> "G" [] c = "h" -> "H"
      [] c = "i" -> "I" [] c = "j" -> "J" [] c = "k" -> "K" [] c = "l" -> "L"
      [] c = "m" -> "M" [] c = "n" -> "N" [] c = "o" -> "O" [] c = "p" -> "P"
      [] c = "q" -> "Q" [] c = "r" -> "R" [] c = "s" -> "S" [] c = "t" -> "T"
      [] c = "u" -> "U" [] c = "v" -> "V" [] c = "w" -> "W" [] c = "x" -> "X"
      [] c = "y" -> "Y" [] c = "z" -> "Z" [] OTHER -> c

\* u8::to_ascii_lowercase
LowerOf(c) ==
    CASE c = "A" -> "a" [] c = "B" -> "b" [] c = "C" -> "c" [] c = "D" -> "d"
      [] c = "E" -> "e" [] c = "F" -> "f" [] c = "G" -> "g" [] c = "H" -> "h"
      [] c = "I" -> "i" [] c = "J" -> "j" [] c = "K" -> "k" [] c = "L" -> "l"
      [] c = "M" -> "m" [] c = "N" -> "n" [] c = "O" -> "o" [] c = "P" -> "p"
      [] c = "Q" -> "q" [] c = "R" -> "r" [] c = "S" -> "s" [] c = "T" -> "t"
      [] c = "U" -> "u" [] c = "V" -> "v" [] c = "W" -> "w" [] c = "X" -> "x"
      [] c = "Y" -> "y" [] c = "Z" -> "z" [] OTHER -> c

\* str::to_ascii_uppercase
to_ascii_uppercase(s) == [i \in 1..Len(s) |-> UpperOf(s[i])]

\* str::to_ascii_lowercase
to_ascii_lowercase(s) == [i \in 1..Len(s) |-> LowerOf(s[i])]

\* s[from..] (1-based, from may be Len(s)+1)
Suffix(s, from) == SubSeq(s, from, Len(s))

\* str::starts_with
starts_with(s, p) == Len(p) <= Len(s) /\ SubSeq(s, 1, Len(p)) = p

\* the least element of a set of indices, 0 for the empty set
FirstOrZero(S) == IF S = {} THEN 0 ELSE MinOf(S)

\* str::find: the 1-based index of the first occurrence of p in s, 0 if none
find(s, p) ==
    FirstOrZero({i \in 1..(Len(s) + 1 - Len(p)) : SubSeq(s, i, i + Len(p) - 1) = p})

\* str::contains
contains(s, p) == \E i \in 1..(Len(s) + 1 - Len(p)) : SubSeq(s, i, i + Len(p) - 1) = p

\* the part of s between the first and the last of the kept positions
Between(s, keep) == IF keep = {} THEN <<>> ELSE SubSeq(s, MinOf(keep), MaxOf(keep))

\* str::trim_matches: strips the characters of cs from both ends
trim_matches(s, cs) == Between(s, {i \in 1..Len(s) : s[i] \notin cs})

\* str::trim
trim(s) == trim_matches(s, Whitespace)

\* str::split(sep): the pieces of s between the occurrences of the character
\* sep, which stand at the positions cuts
SplitAt(s, cuts) ==
    [k \in 1..(Cardinality(cuts) + 1) |->
        SubSeq(s,
               MaxOf({0} \cup {i \in cuts : Cardinality({j \in cuts : j <= i}) = k - 1}) + 1,
               MinOf({Len(s) + 1} \cup
                     {i \in cuts : Cardinality({j \in cuts : j <= i}) = k}) - 1)]

split(s, sep) == SplitAt(s, {i \in 1..Len(s) : s[i] = sep})

\* str::split_whitespace: the non-empty maximal runs of non-whitespace; a run
\* starts at a non-whitespace character that follows whitespace or the start
WordAt(s, b) ==
    SubSeq(s, b, MinOf({Len(s) + 1} \cup {i \in b..Len(s) : s[i] \in Whitespace}) - 1)

WordsAt(s, starts) ==
    [k \in 1..Cardinality(starts) |->
        WordAt(s, CHOOSE b \in starts : Cardinality({j \in starts : j <= b}) = k)]

split_whitespace(s) ==
    WordsAt(s, {i \in 1..Len(s) : /\ s[i] \notin Whitespace
                                  /\ (i = 1 \/ s[i - 1] \in Whitespace)})

Digits == <<"0","1","2","3","4","5","6","7","8","9">>

DigitChars == {"0","1","2","3","4","5","6","7","8","9"}

DigitValue(c) == (CHOOSE i \in 1..10 : Digits[i] = c) - 1

RECURSIVE DecimalValue(_)
DecimalValue(s) ==
    IF s = <<>> THEN 0
    ELSE DecimalValue(SubSeq(s, 1, Len(s) - 1)) * 10 + DigitValue(s[Len(s)])

\* the value of a digit string without leading zeros: None above max (both
\* maxima have at most 5 digits)
BoundedValue(sig, max) ==
    IF Len(sig) > 5 THEN None
    ELSE IF DecimalValue(sig) > max THEN None
    ELSE Some(DecimalValue(sig))

\* d without its leading zeros
StripZeros(d, nz) == IF nz = {} THEN <<>> ELSE Suffix(d, MinOf(nz))

\* the value of a non-empty digit string
ParseDigits(d, max) ==
    IF d = <<>> \/ \E i \in 1..Len(d) : d[i] \notin DigitChars THEN None
    ELSE BoundedValue(StripZeros(d, {i \in 1..Len(d) : d[i] # "0"}), max)

\* str::parse for u8 and u16: an optional '+', then one or more decimal digits,
\* and a value of at most max; None otherwise
parse_unsigned(s, max) ==
    ParseDigits(IF s # <<>> /\ s[1] = "+" THEN Tail(s) ELSE s, max)

U16Max == 65535

U8Max == 255

parse_u16(s) == parse_unsigned(s, U16Max)

parse_u8(s) == parse_unsigned(s, U8Max)

\* u16::to_string
RECURSIVE to_string(_)
to_string(n) ==
    IF n < 10 THEN <<Digits[n + 1]>>
    ELSE to_string(n \div 10) \o <<Digits[(n % 10) + 1]>>

(***************************************************************************)
(* services.rs: the port -> service-name table.  The table is built from   *)
(* the embedded IANA registry; these are the rows for the ports that occur *)
(* in the modelled log lines.                                              *)
(***************************************************************************)
service_from_port(port) ==
    CASE port = 22 -> Some(<<"s","s","h">>)
      [] port = 53 -> Some(<<"d","o","m","a","i","n">>)
      [] port = 443 -> Some(<<"h","t","t","p","s">>)
      [] OTHER -> None

(***************************************************************************)
(* parser.rs                                                               *)
(***************************************************************************)
UfwMarker == <<"[","U","F","W"," ">>

KernelSep == <<" ","k","e","r","n","e","l",":">>

\* parse_action: the trimmed text between "[UFW " and the next ']'.  rest is
\* the text after the marker, end the position of ']' in it.
ActionUpTo(rest, end) == IF end = 0 THEN None ELSE Some(trim(SubSeq(rest, 1, end - 1)))

ActionIn(rest) == ActionUpTo(rest, find(rest, <<"]">>))

ActionAfter(line, m) == IF m = 0 THEN None ELSE ActionIn(Suffix(line, m + Len(UfwMarker)))

parse_action(line) == ActionAfter(line, find(line, UfwMarker))

\* str::split_once('='): <<key, value>> around the first '=', None without one
SplitOnceAt(token, i) ==
    IF i = 0 THEN None
    ELSE Some([key |-> SubSeq(token, 1, i - 1), value |-> Suffix(token, i + 1)])

split_once_eq(token) == SplitOnceAt(token, find(token, <<"=">>))

\* the key of a split token is name
KeyIs(kv, name) == kv # None /\ kv[1].key = name

\* the value of the first of the tokens at the positions hits, with ',' and ']'
\* trimmed from both ends
FieldValue(tokens, hits) ==
    IF hits = {} THEN None
    ELSE Some(trim_matches(split_once_eq(tokens[MinOf(hits)])[1].value, {",", "]"}))

FieldIn(tokens, name) ==
    FieldValue(tokens, {i \in 1..Len(tokens) : KeyIs(split_once_eq(tokens[i]), name)})

\* parse_field: the value of the first whitespace-delimited token KEY=VALUE whose
\* key is name, with ',' and ']' trimmed from both ends
parse_field(line, name) == FieldIn(split_whitespace(line), name)

\* line.split(" kernel:").next(): the text before the first " kernel:", the whole
\* line when there is none
BeforeAt(line, k) == IF k = 0 THEN line ELSE SubSeq(line, 1, k - 1)

before_kernel(line) == BeforeAt(line, find(line, KernelSep))

\* Option::map(str::to_ascii_uppercase)
map_upper(opt) == IF opt = None THEN None ELSE Some(to_ascii_uppercase(opt[1]))

\* Option::and_then with str::parse::<u16>
and_then_parse_u16(opt) == IF opt = None THEN None ELSE parse_u16(opt[1])

\* Option::and_then with service_from_port
and_then_service_from_port(opt) == IF opt = None THEN None ELSE service_from_port(opt[1])

\* Option::or
or(opt, other) == IF opt # None THEN opt ELSE other

\* the LogEntry literal of parse_ufw_line
NewLogEntry(line, action, proto, src_port, dst_port) ==
    [ timestamp |-> trim(before_kernel(line)),
      action    |-> action,
      in_iface  |-> parse_field(line, <<"I","N">>),
      out_iface |-> parse_field(line, <<"O","U","T">>),
      src_ip    |-> parse_field(line, <<"S","R","C">>),
      dst_ip    |-> parse_field(line, <<"D","S","T">>),
      src_port  |-> src_port,
      dst_port  |-> dst_port,
      proto     |-> map_upper(proto),
      service   |-> or(and_then_service_from_port(dst_port),
                       and_then_service_from_port(src_port)),
      raw       |-> line ]

\* parse_ufw_line from the parsed action: None without the marker
EntryWithAction(line, action) ==
    IF action = None THEN None
    ELSE Some(NewLogEntry(line, action[1],
                          parse_field(line, <<"P","R","O","T","O">>),
                          and_then_parse_u16(parse_field(line, <<"S","P","T">>)),
                          and_then_parse_u16(parse_field(line, <<"D","P","T">>))))

\* parse_ufw_line: None without the marker, else Some(LogEntry)
parse_ufw_line(line) == EntryWithAction(line, parse_action(line))

(***************************************************************************)
(* The pool of kernel log lines the backing file is made of.               *)
(***************************************************************************)
\* the lines are
\*   1  [UFW BLOCK] IN=eth0 SRC=8.8.8.8
\*   2  [UFW ALLOW] IN=eth0 SRC=1.1.1.1
\*   3  [UFW BLOCK] OUT=wlan0 SRC=9.9.9.9
\*   4  link up
LinePool ==
    << <<"[","U","F","W"," ","B","L","O","C","K","]"," ","I","N","=","e","t",
         "h","0"," ","S","R","C","=","8",".","8",".","8",".","8">>,
       <<"[","U","F","W"," ","A","L","L","O","W","]"," ","I","N","=","e","t",
         "h","0"," ","S","R","C","=","1",".","1",".","1",".","1">>,
       <<"[","U","F","W"," ","B","L","O","C","K","]"," ","O","U","T","=","w",
         "l","a","n","0"," ","S","R","C","=","9",".","9",".","9",".","9">>,
       <<"l","i","n","k"," ","u","p">> >>

\* lines with addresses, protocols and ports, for the filter engine
\*   5  Nov  1 10:00:00 host kernel: [UFW BLOCK] IN=eth0 OUT= SRC=8.8.8.8 DST=192.168.1.5 PROTO=TCP SPT=443 DPT=22
\*   6  [UFW ALLOW] IN= OUT=wlan0 SRC=192.168.1.5 DST=1.1.1.1 PROTO=UDP SPT=5353 DPT=53
\*   7  [UFW AUDIT] IN=eth0 OUT=docker0 SRC=10.0.0.2 DST=172.16.0.9 PROTO=tcp SPT=22 DPT=2222
\*   8  [UFW BLOCK] IN=eth0 SRC=fe80::1 DST=ff02::1 PROTO=UDP SPT=0 DPT=443
RichLinePool ==
    << <<"N","o","v"," "," ","1"," ","1","0",":","0","0",":","0","0"," ","h",
         "o","s","t"," ","k","e","r","n","e","l",":"," ","[","U","F","W"," ",
         "B","L","O","C","K","]"," ","I","N","=","e","t","h","0"," ","O","U",
         "T","="," ","S","R","C","=","8",".","8",".","8",".","8"," ","D","S",
         "T","=","1","9","2",".","1","6","8",".","1",".","5"," ","P","R","O",
         "T","O","=","T","C","P"," ","S","P","T","=","4","4","3"," ","D","P",
         "T","=","2","2">>,
       <<"[","U","F","W"," ","A","L","L","O","W","]"," ","I","N","="," ","O",
         "U","T","=","w","l","a","n","0"," ","S","R","C","=","1","9","2",".",
         "1","6","8",".","1",".","5"," ","D","S","T","=","1",".","1",".","1",
         ".","1"," ","P","R","O","T","O","=","U","D","P"," ","S","P","T","=",
         "5","3","5","3"," ","D","P","T","=","5","3">>,
       <<"[","U","F","W"," ","A","U","D","I","T","]"," ","I","N","=","e","t",
         "h","0"," ","O","U","T","=","d","o","c","k","e","r","0"," ","S","R",
         "C","=","1","0",".","0",".","0",".","2"," ","D","S","T","=","1","7",
         "2",".","1","6",".","0",".","9"," ","P","R","O","T","O","=","t","c",
         "p"," ","S","P","T","=","2","2"," ","D","P","T","=","2","2","2","2">>,
       <<"[","U","F","W"," ","B","L","O","C","K","]"," ","I","N","=","e","t",
         "h","0"," ","S","R","C","=","f","e","8","0",":",":","1"," ","D","S",
         "T","=","f","f","0","2",":",":","1"," ","P","R","O","T","O","=","U",
         "D","P"," ","S","P","T","=","0"," ","D","P","T","=","4","4","3">> >>

\* lines with an incomplete marker
\*   9   [UFW BLOCK IN=eth0
\*   10  IN=eth0] [UFW
MalformedLinePool ==
    << <<"[","U","F","W"," ","B","L","O","C","K"," ","I","N","=","e","t","h","0">>,
       <<"I","N","=","e","t","h","0","]"," ","[","U","F","W">> >>

\* lines with the interface names and the address forms that the classifiers
\* of net.rs distinguish
\*   11  [UFW BLOCK] IN=lo OUT=wgwan0 SRC=::1 DST=fdisk
\*   12  [UFW BLOCK] IN=bond0 OUT=enp3s0 SRC=FE80::1 DST=fe80:zz
\*   13  [UFW BLOCK] IN=ETH1 OUT=br-lan SRC=fd00::1 DST=+10.0.0.1
\*   14  [UFW BLOCK] IN=tun0 OUT=mywan SRC=0.0.0.0 DST=010.0.0.1
\*   15  [UFW BLOCK] IN=veth12 OUT=ppp0 SRC=224.0.0.1 DST=::
\*   16  [UFW BLOCK] IN=virbr0 OUT=wwan0 SRC=192.168.1.5 DST=2001:db8::1
\*   17  [UFW BLOCK] IN=tap0 OUT=tailscale0 SRC= DST=172.32.0.1
\*   18  [UFW BLOCK] IN=wg0 SRC=169.254.1.1 DST=256.1.1.1
\*   19  [UFW BLOCK] IN=docker0 OUT=eth0 SRC=::ffff:10.0.0.1 DST=fc
ProbeLinePool ==
    << <<"[","U","F","W"," ","B","L","O","C","K","]"," ","I","N","=","l","o",
         " ","O","U","T","=","w","g","w","a","n","0"," ","S","R","C","=",":",
         ":","1"," ","D","S","T","=","f","d","i","s","k">>,
       <<"[","U","F","W"," ","B","L","O","C","K","]"," ","I","N","=","b","o",
         "n","d","0"," ","O","U","T","=","e","n","p","3","s","0"," ","S","R",
         "C","=","F","E","8","0",":",":","1"," ","D","S","T","=","f","e","8",
         "0",":","z","z">>,
       <<"[","U","F","W"," ","B","L","O","C","K","]"," ","I","N","=","E","T",
         "H","1"," ","O","U","T","=","b","r","-","l","a","n"," ","S","R","C",
         "=","f","d","0","0",":",":","1"," ","D","S","T","=","+","1","0",".",
         "0",".","0",".","1">>,
       <<"[","U","F","W"," ","B","L","O","C","K","]"," ","I","N","=","t","u",
         "n","0"," ","O","U","T","=","m","y","w","a","n"," ","S","R","C","=",
         "0",".","0",".","0",".","0"," ","D","S","T","=","0","1","0",".","0",
         ".","0",".","1">>,
       <<"[","U","F","W"," ","B","L","O","C","K","]"," ","I","N","=","v","e",
         "t","h","1","2"," ","O","U","T","=","p","p","p","0"," ","S","R","C",
         "=","2","2","4",".","0",".","0",".","1"," ","D","S","T","=",":",":">>,
       <<"[","U","F","W"," ","B","L","O","C","K","]"," ","I","N","=","v","i",
         "r","b","r","0"," ","O","U","T","=","w","w","a","n","0"," ","S","R","C","=","1","9","2",".","1","6","8",".","1",".","5"," ","D","S","T","=","2","0","0","1",":","d","b","8",":",":","1">>,
       <<"[","U","F","W"," ","B","L","O","C","K","]"," ","I","N","=","t","a",
         "p","0"," ","O","U","T","=","t","a","i","l","s","c","a","l","e","0",
         " ","S","R","C","="," ","D","S","T","=","1","7","2",".","3","2",".","0",".","1">>,
       <<"[","U","F","W"," ","B","L","O","C","K","]"," ","I","N","=","w","g",
         "0"," ","S","R","C","=","1","6","9",".","2","5","4",".","1",".","1",
         " ","D","S","T","=","2","5","6",".","1",".","1",".","1">>,
       <<"[","U","F","W"," ","B","L","O","C","K","]"," ","I","N","=","d","o",
         "c","k","e","r","0"," ","O","U","T","=","e","t","h","0"," ","S","R",
         "C","=",":",":","f","f","f","f",":","1","0",".","0",".","0",".","1",
         " ","D","S","T","=","f","c">> >>

\* a line of a file is an index into AllLines
AllLines == LinePool \o RichLinePool \o MalformedLinePool \o ProbeLinePool

\* parse_ufw_line of every pool line
ParsedLine == [i \in 1..Len(AllLines) |-> parse_ufw_line(AllLines[i])]

\* the addresses that occur in parsed lines, and an absent address
AddressesOf(parsed) ==
    {None} \cup UNION {{parsed[i][1].src_ip, parsed[i][1].dst_ip} :
                          i \in {j \in 1..Len(parsed) : parsed[j] # None}}


(***************************************************************************)
(* std::net::IpAddr::from_str, as far as is_wan_ip uses it: the address    *)
(* family and the eight 16-bit groups (or four octets) of a textual        *)
(* address, None when the text is not an address.                          *)
(***************************************************************************)
HexDigits == <<"0","1","2","3","4","5","6","7","8","9","a","b","c","d","e","f">>

HexChars == {HexDigits[i] : i \in 1..16} \cup {"A","B","C","D","E","F"}

HexDigitValue(c) ==
    (CHOOSE i \in 1..16 : HexDigits[i] = LowerOf(c)) - 1

RECURSIVE HexValue(_)
HexValue(s) ==
    IF s = <<>> THEN 0
    ELSE HexValue(SubSeq(s, 1, Len(s) - 1)) * 16 + HexDigitValue(s[Len(s)])

\* one octet of a dotted quad: 1 to 3 digits, no leading zero, at most 255
ipv4_octet(part) ==
    IF /\ Len(part) \in 1..3
       /\ \A i \in 1..Len(part) : part[i] \in DigitChars
       /\ (Len(part) > 1 => part[1] # "0")
       /\ DecimalValue(part) <= U8Max
    THEN Some(DecimalValue(part)) ELSE None

\* Option<Vec<T>> from a sequence of options: None if one of them is None
Collect(opts) ==
    IF \E i \in 1..Len(opts) : opts[i] = None THEN None
    ELSE Some([i \in 1..Len(opts) |-> opts[i][1]])

\* the four octets of the pieces of a dotted quad
OctetsOf(parts) ==
    IF Len(parts) = 4 THEN Collect([i \in 1..4 |-> ipv4_octet(parts[i])]) ELSE None

\* Ipv4Addr::from_str: the four octets
parse_ipv4(s) == OctetsOf(split(s, "."))

\* one group of an IPv6 address: 1 to 4 hexadecimal digits
ipv6_group(part) ==
    IF Len(part) \in 1..4 /\ \A i \in 1..Len(part) : part[i] \in HexChars
    THEN Some(HexValue(part)) ELSE None

\* the groups of the first lead pieces, followed by the two groups of the
\* dotted quad v4 when there is one
GroupsWith(parts, lead, v4) ==
    IF \E i \in 1..lead : ipv6_group(parts[i]) = None THEN None
    ELSE Some([i \in 1..lead |-> ipv6_group(parts[i])[1]] \o
              (IF v4 = None THEN <<>>
               ELSE <<v4[1][1] * 256 + v4[1][2], v4[1][3] * 256 + v4[1][4]>>))

GroupsEndingIn(parts, v4) ==
    GroupsWith(parts, IF v4 = None THEN Len(parts) ELSE Len(parts) - 1, v4)

GroupsOf(parts) == GroupsEndingIn(parts, parse_ipv4(parts[Len(parts)]))

\* the groups of a ':'-separated run, the last of which may be a dotted quad
\* (two groups); None if a piece is neither
ipv6_groups(s) == IF s = <<>> THEN Some(<<>>) ELSE GroupsOf(split(s, ":"))

\* eight groups, or nothing
EightGroups(g) == IF g # None /\ Len(g[1]) = 8 THEN g ELSE None

\* the groups before and after "::", with zero groups between them
AroundGap(head, tail) ==
    IF head = None \/ tail = None THEN None
    ELSE IF Len(head[1]) + Len(tail[1]) > 7 THEN None
    ELSE Some(head[1] \o [i \in 1..(8 - Len(head[1]) - Len(tail[1])) |-> 0] \o tail[1])

GroupsAt(s, gap) ==
    IF gap = 0 THEN EightGroups(ipv6_groups(s))
    ELSE AroundGap(ipv6_groups(SubSeq(s, 1, gap - 1)), ipv6_groups(Suffix(s, gap + 2)))

\* Ipv6Addr::from_str: the eight groups; "::" stands for one or more zero groups
parse_ipv6(s) == GroupsAt(s, find(s, <<":", ":">>))

\* the address of the family v with these groups, if there are any
AddrOf(v, groups) == IF groups = None THEN None ELSE Some([v |-> v, groups |-> groups[1]])

\* IpAddr::from_str
parse_ip_addr(s) == or(AddrOf(4, parse_ipv4(s)), AddrOf(6, parse_ipv6(s)))

\* IpAddr::is_unspecified: 0.0.0.0 or ::
is_unspecified(addr) == \A i \in 1..Len(addr.groups) : addr.groups[i] = 0

\* IpAddr::is_multicast: 224.0.0.0/4 or ff00::/8
is_multicast(addr) ==
    IF addr.v = 4 THEN addr.groups[1] \in 224..239
    ELSE addr.groups[1] \div 256 = 255

(***************************************************************************)
(* net.rs                                                                  *)
(***************************************************************************)
\* is_local_ip, the match on the first two octets
LocalRange(o1, o2) ==
    \/ o1 = 10
    \/ o1 = 127
    \/ (o1 = 192 /\ o2 = 168)
    \/ (o1 = 172 /\ o2 \in 16..31)
    \/ (o1 = 169 /\ o2 = 254)

\* is_local_ip, the dotted quad test on the pieces of the address
LocalQuad(parts) ==
    IF Len(parts) # 4 \/ \E i \in 1..4 : parse_u8(parts[i]) = None THEN FALSE
    ELSE LocalRange(parse_u8(parts[1])[1], parse_u8(parts[2])[1])

\* is_local_ip, the IPv6 prefixes
LocalPrefix(lower) ==
    \/ lower = <<":", ":", "1">>
    \/ starts_with(lower, <<"f","e","8","0",":">>)
    \/ starts_with(lower, <<"f","c">>)
    \/ starts_with(lower, <<"f","d">>)

\* is_local_ip on the trimmed address
LocalTrimmed(t) ==
    IF t = <<>> THEN FALSE
    ELSE IF LocalPrefix(to_ascii_lowercase(t)) THEN TRUE
    ELSE LocalQuad(split(t, "."))

\* is_local_ip: ip is Option<&str>
is_local_ip_body(ip) == IF ip = None THEN FALSE ELSE LocalTrimmed(trim(ip[1]))

\* a variant of WanParsed that does not consult is_local_ip
WanParsed_any_unicast(t, addr) ==
    IF t = <<>> THEN FALSE
    ELSE IF addr = None THEN FALSE
    ELSE ~(is_unspecified(addr[1]) \/ is_multicast(addr[1]))

\* is_wan_ip on the trimmed address and its parse
WanParsed(t, addr) ==
    IF t = <<>> THEN FALSE
    ELSE IF addr = None THEN FALSE
    ELSE IF is_unspecified(addr[1]) \/ is_multicast(addr[1]) THEN FALSE
    ELSE ~is_local_ip_body(Some(t))

WanTrimmed(t) == WanParsed(t, parse_ip_addr(t))

\* is_wan_ip
is_wan_ip_body(ip) == IF ip = None THEN FALSE ELSE WanTrimmed(trim(ip[1]))

\* the parse of every pool line and the classification of every address of
\* the parsed lines; the handlers look the parse of a line and the class of an
\* address up in PoolTables
TablesOf(parsed) ==
    [ parsed |-> parsed,
      local  |-> [ip \in AddressesOf(parsed) |-> is_local_ip_body(ip)],
      wan    |-> [ip \in AddressesOf(parsed) |-> is_wan_ip_body(ip)] ]

PoolTables == TablesOf(ParsedLine)

is_local_ip(ip) == PoolTables.local[ip]

is_wan_ip(ip) == PoolTables.wan[ip]

is_local_src_ip(src_ip) == is_local_ip(src_ip)

is_wan_src_ip(src_ip) == is_wan_ip(src_ip)

\* a variant of flow_matches that takes every destination that is not local
\* for external
flow_matches_not_local(flow, src_local, dst_local, dst_wan) ==
    CASE flow = "All" -> TRUE
      [] flow = "LocalToLocal" -> src_local /\ dst_local
      [] flow = "LocalToExternal" -> src_local /\ ~dst_local

\* matches_flow_filter on the three classifications it computes
flow_matches(flow, src_local, dst_local, dst_wan) ==
    CASE flow = "All" -> TRUE
      [] flow = "LocalToLocal" -> src_local /\ dst_local
      [] flow = "LocalToExternal" -> src_local /\ dst_wan

\* LogEntry::direction
direction(entry) ==
    LET has_in == entry.in_iface # None /\ entry.in_iface[1] # <<>>
        has_out == entry.out_iface # None /\ entry.out_iface[1] # <<>>
    IN  CASE has_in /\ ~has_out -> "IN"
          [] ~has_in /\ has_out -> "OUT"
          [] has_in /\ has_out -> "FWD"
          [] OTHER -> "?"

FlowFilters == {"All", "LocalToLocal", "LocalToExternal"}

DirectionFilters == {"Both", "In", "Out", "Forwarded"}

matches_flow_filter(flow, entry) ==
    flow_matches(flow, is_local_ip(entry.src_ip), is_local_ip(entry.dst_ip),
                 is_wan_ip(entry.dst_ip))

matches_direction_filter(dir, entry) ==
    CASE dir = "Both" -> TRUE
      [] dir = "In" -> direction(entry) = "IN"
      [] dir = "Out" -> direction(entry) = "OUT"
      [] dir = "Forwarded" -> direction(entry) = "FWD"

\* a variant of WanCandidateLower without the exclusions
WanCandidateLower_included(lower) ==
    \/ starts_with(lower, <<"e","n">>)
    \/ starts_with(lower, <<"e","t","h">>)
    \/ starts_with(lower, <<"w","l">>)
    \/ starts_with(lower, <<"w","w","a","n">>)
    \/ starts_with(lower, <<"p","p","p">>)
    \/ contains(lower, <<"w","a","n">>)

\* is_wan_candidate_interface on the lowercased name
WanCandidateLower(lower) ==
    IF \/ lower = <<"l","o">>
       \/ starts_with(lower, <<"d","o","c","k","e","r">>)
       \/ starts_with(lower, <<"v","e","t","h">>)
       \/ starts_with(lower, <<"v","i","r","b","r">>)
       \/ starts_with(lower, <<"b","r","-">>)
       \/ starts_with(lower, <<"t","a","i","l","s","c","a","l","e">>)
       \/ starts_with(lower, <<"t","u","n">>)
       \/ starts_with(lower, <<"t","a","p">>)
       \/ starts_with(lower, <<"w","g">>)
    THEN FALSE
    ELSE \/ starts_with(lower, <<"e","n">>)
         \/ starts_with(lower, <<"e","t","h">>)
         \/ starts_with(lower, <<"w","l">>)
         \/ starts_with(lower, <<"w","w","a","n">>)
         \/ starts_with(lower, <<"p","p","p">>)
         \/ contains(lower, <<"w","a","n">>)

is_wan_candidate_interface(name) == WanCandidateLower(to_ascii_lowercase(name))

\* the first of the candidates cands of the catalogue, else its first name
FirstCandidate(options, cands) ==
    IF cands # {} THEN Some(options[MinOf(cands)])
    ELSE IF options # <<>> THEN Some(options[1])
    ELSE None

\* default_wan_interface: options is the catalogue (a sequence of names)
default_wan_interface(options) ==
    FirstCandidate(options,
                   {i \in 1..Len(options) : is_wan_candidate_interface(options[i])})

(***************************************************************************)
(* main.rs: Filters, LogEntry collections and the pure helpers of App.     *)
(* Vec indices are 1-based here (entries[1] is the newest entry); the      *)
(* selection position `selected` stays 0-based as in the code, so the      *)
(* selected visible entry is entries[filtered[selected + 1]].              *)
(***************************************************************************)
FilterFields == {"service", "port", "ip", "action", "proto", "text"}

\* Filters::default
DefaultFilters == [f \in FilterFields |-> <<>>]

\* Option<String>::as_deref().unwrap_or("")
or_empty(opt) == unwrap_or(opt, <<>>)

\* Option<u16>::map(to_string).unwrap_or_default()
port_text(opt) == IF opt = None THEN <<>> ELSE to_string(opt[1])

\* a variant of the port criterion that always compares the decimal texts
port_matches_substring(wanted, port, entry) ==
    \/ contains(port_text(entry.src_port), wanted)
    \/ contains(port_text(entry.dst_port), wanted)

\* Filters::matches, the port criterion: wanted is the trimmed criterion, port
\* its parse as u16
port_matches_parsed(wanted, port, entry) ==
    IF port # None
    THEN entry.src_port = port \/ entry.dst_port = port
    ELSE \/ contains(port_text(entry.src_port), wanted)
         \/ contains(port_text(entry.dst_port), wanted)

port_matches(wanted, entry) == port_matches_parsed(wanted, parse_u16(wanted), entry)

\* Filters::matches
Filters_matches(f, entry) ==
    /\ f.service # <<>> =>
         contains(to_ascii_lowercase(or_empty(entry.service)), to_ascii_lowercase(f.service))
    /\ f.port # <<>> => port_matches(trim(f.port), entry)
    /\ f.ip # <<>> =>
         \/ contains(to_ascii_lowercase(or_empty(entry.src_ip)), to_ascii_lowercase(f.ip))
         \/ contains(to_ascii_lowercase(or_empty(entry.dst_ip)), to_ascii_lowercase(f.ip))
    /\ f.action # <<>> =>
         contains(to_ascii_lowercase(entry.action), to_ascii_lowercase(f.action))
    /\ f.proto # <<>> =>
         contains(to_ascii_lowercase(or_empty(entry.proto)), to_ascii_lowercase(f.proto))
    /\ f.text # <<>> =>
         contains(to_ascii_lowercase(entry.raw), to_ascii_lowercase(f.text))

\* a variant of entry_visible that hides local sources while they are shown
entry_visible_hiding_shown(a, entry) ==
    /\ a.selected_interface # None =>
         \/ entry.in_iface = a.selected_interface
         \/ entry.out_iface = a.selected_interface
    /\ ~(a.show_local_src /\ is_local_src_ip(entry.src_ip))
    /\ ~(~a.show_wan_src /\ is_wan_src_ip(entry.src_ip))
    /\ matches_flow_filter(a.flow_filter, entry)
    /\ matches_direction_filter(a.direction_filter, entry)
    /\ Filters_matches(a.filters, entry)

\* the closure of App::filtered_indices: does the entry pass the current view of a
entry_visible(a, entry) ==
    /\ a.selected_interface # None =>
         \/ entry.in_iface = a.selected_interface
         \/ entry.out_iface = a.selected_interface
    /\ ~(~a.show_local_src /\ is_local_src_ip(entry.src_ip))
    /\ ~(~a.show_wan_src /\ is_wan_src_ip(entry.src_ip))
    /\ matches_flow_filter(a.flow_filter, entry)
    /\ matches_direction_filter(a.direction_filter, entry)
    /\ Filters_matches(a.filters, entry)

\* a variant of filtered_from that collects the indices last to first
RECURSIVE filtered_from_descending(_, _)
filtered_from_descending(a, i) ==
    IF i > Len(a.entries) THEN <<>>
    ELSE filtered_from_descending(a, i + 1)
         \o (IF entry_visible(a, a.entries[i]) THEN <<i>> ELSE <<>>)

\* App::filtered_indices, the indices from i on
RECURSIVE filtered_from(_, _)
filtered_from(a, i) ==
    IF i > Len(a.entries) THEN <<>>
    ELSE (IF entry_visible(a, a.entries[i]) THEN <<i>> ELSE <<>>) \o filtered_from(a, i + 1)

\* App::filtered_indices
filtered_indices(a) == filtered_from(a, 1)

\* the 0-based form of the first of the positions hits, if there is one
FirstPosition(hits) == IF hits = {} THEN None ELSE Some(MinOf(hits) - 1)

\* selected_position_for_raw: Option<usize>, the 0-based position in
\* filtered of the first visible entry whose raw is raw
selected_position_for_raw(entries, filtered, raw) ==
    FirstPosition({p \in 1..Len(filtered) : entries[filtered[p]].raw = raw})

\* App::current_selected_raw on the visible sequence
selected_raw_in(a, filtered) ==
    IF filtered = <<>> THEN None
    ELSE Some(a.entries[filtered[Min(a.selected, Len(filtered) - 1) + 1]].raw)

\* App::current_selected_raw
current_selected_raw(a) == selected_raw_in(a, filtered_indices(a))

(***************************************************************************)
(* The backing file: a sequence of indices into AllLines.                  *)
(***************************************************************************)
\* the file system's view of the log path: state is "ok" (readable), "denied"
\* (metadata can be fetched, reading fails) or "missing" (both fail)
NoFile == [state |-> "missing", lines |-> <<>>, mtime |-> 0]

\* fs::metadata(path).len(): every line is followed by a newline
RECURSIVE FileLen(_)
FileLen(ids) ==
    IF ids = <<>> THEN 0
    ELSE Len(AllLines[Head(ids)]) + 1 + FileLen(Tail(ids))

\* what one external step (the log writer, logrotate, an administrator) can make
\* of the file f
WriterSteps(f) ==
    IF f.state = "missing"
    THEN {[state |-> "ok", lines |-> <<>>, mtime |-> m] : m \in 0..MaxMtime}
    ELSE {[f EXCEPT !.lines = Append(@, l), !.mtime = m] :
              l \in (IF Len(f.lines) < MaxFileLen THEN 1..Len(LinePool) ELSE {}),
              m \in 0..MaxMtime}
         \cup {[f EXCEPT !.lines = <<>>, !.mtime = m] : m \in 0..MaxMtime}
         \cup {[f EXCEPT !.state = IF @ = "ok" THEN "denied" ELSE "ok"]}
         \cup {NoFile}

\* Vec::reverse
Reverse(s) == [i \in 1..Len(s) |-> s[Len(s) + 1 - i]]

\* Iterator::filter_map over a sequence of options: the values of the Some
\* elements, in order
RECURSIVE filter_map(_)
filter_map(opts) ==
    IF opts = <<>> THEN <<>>
    ELSE (IF Head(opts) = None THEN <<>> ELSE <<Head(opts)[1]>>) \o filter_map(Tail(opts))

\* a variant of load_entries that keeps the file order
load_entries_in_file_order(f) ==
    IF f.state # "ok" THEN None
    ELSE Some(filter_map([i \in 1..Len(f.lines) |-> PoolTables.parsed[f.lines[i]]]))

\* load_entries: io::Result<Vec<LogEntry>>, None standing for Err
load_entries(f) ==
    IF f.state # "ok" THEN None
    ELSE Some(Reverse(filter_map([i \in 1..Len(f.lines) |-> PoolTables.parsed[f.lines[i]]])))

\* file_fingerprint: io::Result<FileFingerprint>, None standing for Err
file_fingerprint(f) ==
    IF f.state = "missing" THEN None
    ELSE Some([modified |-> Some(f.mtime), len |-> FileLen(f.lines)])

(***************************************************************************)
(* String ordering (Ord for String: bytewise lexicographic).               *)
(***************************************************************************)
\* the characters of the modelled names, in ASCII order
AsciiOrder == <<" ","+",",","-",".","0","1","2","3","4","5","6","7","8","9",":","=",
                "A","B","C","D","E","F","G","H","I","J","K","L","M","N","O","P","Q",
                "R","S","T","U","V","W","X","Y","Z","[","]","a","b","c","d","e","f",
                "g","h","i","j","k","l","m","n","o","p","q","r","s","t","u","v","w",
                "x","y","z">>

CharCode(c) == CHOOSE i \in 1..Len(AsciiOrder) : AsciiOrder[i] = c

\* a < b for strings
StrLess(a, b) ==
    \E k \in 1..(Len(b)) :
        /\ \A i \in 1..(k - 1) : i <= Len(a) /\ a[i] = b[i]
        /\ \/ k = Len(a) + 1
           \/ (k <= Len(a) /\ CharCode(a[k]) < CharCode(b[k]))

(***************************************************************************)
(* App (main.rs).  An App value is a record of the fields of struct App    *)
(* that the filter engine and the live source sync read or write:          *)
(*   entries, interface_options, selected_interface, filters,              *)
(*   show_local_src, show_wan_src, flow_filter, direction_filter,          *)
(*   updates_paused, selected, table_selected (table_state.selected()),    *)
(*   watch_elapsed (last_watch_check.elapsed(), in ticks, saturating at    *)
(*   the polling interval), last_fingerprint, status, status_snapshot,     *)
(*   status_since (None, or Some of status_since.elapsed() in ticks,       *)
(*   saturating at the status lifetime),                                   *)
(* and io, the log of the file system calls made by the running handler.   *)
(***************************************************************************)
\* Duration::from_secs(1) in maybe_reload
PollSeconds == 1

PollInterval == PollSeconds * TicksPerSecond

StatusFailedRead == "Failed to read"

\* Duration::from_secs(5) in refresh_status_lifetime
StatusLifetimeSeconds == 5

StatusLifetime == StatusLifetimeSeconds * TicksPerSecond

\* App::refresh_status_lifetime, the expiry of a status shown long enough
expire_status(a1) ==
    IF a1.status # "" /\ a1.status_since # None /\ a1.status_since[1] >= StatusLifetime
    THEN [a1 EXCEPT !.status = "", !.status_snapshot = "", !.status_since = None]
    ELSE a1

\* App::refresh_status_lifetime: a changed status restarts the timer
refresh_status_lifetime(a) ==
    expire_status(IF a.status # a.status_snapshot
                  THEN [a EXCEPT !.status_snapshot = a.status,
                                 !.status_since = IF a.status = "" THEN None ELSE Some(0)]
                  ELSE a)

\* the occurrences of name among the in_iface and out_iface values of entries
RECURSIVE iface_count(_, _)
iface_count(entries, name) ==
    IF entries = <<>> THEN 0
    ELSE (IF Head(entries).in_iface = Some(name) THEN 1 ELSE 0)
         + (IF Head(entries).out_iface = Some(name) THEN 1 ELSE 0)
         + iface_count(Tail(entries), name)

\* the non-empty interface names of entries
iface_names(entries) ==
    {n \in UNION {{or_empty(entries[i].in_iface), or_empty(entries[i].out_iface)} :
                     i \in 1..Len(entries)} : n # <<>>}

\* a variant of the comparator that orders by name alone
OptionBefore_by_name(n, cn, m, cm) == StrLess(n, m)

\* the comparator of sort_by(|a, b| b.1.cmp(&a.1).then(a.0.cmp(&b.0))):
\* name n with count cn comes before name m with count cm
OptionBefore(n, cn, m, cm) == cn > cm \/ (cn = cm /\ StrLess(n, m))

\* sort_by: names by descending count, then ascending name
RECURSIVE sort_options(_, _)
sort_options(entries, names) ==
    IF names = {} THEN <<>>
    ELSE LET first == CHOOSE n \in names : \A m \in names \ {n} :
                          OptionBefore(n, iface_count(entries, n), m, iface_count(entries, m))
         IN  <<first>> \o sort_options(entries, names \ {first})

\* a variant of with_interface_options that always falls back to the default
with_interface_options_default(a, options, previous) ==
    [a EXCEPT !.interface_options = options,
              !.selected_interface = default_wan_interface(options)]

\* App::refresh_interface_options, the selection once the catalogue is options
with_interface_options(a, options, previous) ==
    IF previous # None /\ \E i \in 1..Len(options) : options[i] = previous[1]
    THEN [a EXCEPT !.interface_options = options,
                   !.selected_interface = previous]
    ELSE [a EXCEPT !.interface_options = options,
                   !.selected_interface = default_wan_interface(options)]

\* App::refresh_interface_options
refresh_interface_options(a, previous) ==
    with_interface_options(a, sort_options(a.entries, iface_names(a.entries)), previous)

\* App::sync_selection_with_len
sync_selection_with_len(a, len) ==
    IF len = 0
    THEN [a EXCEPT !.selected = 0, !.table_selected = None]
    ELSE [a EXCEPT !.selected = Min(a.selected, len - 1),
                   !.table_selected = Some(Min(a.selected, len - 1))]

IoResult(tag, result) == IF result = None THEN tag \o ":err" ELSE tag \o ":ok"

\* a variant of reload_selection that counts the matching position from the
\* end of the visible sequence
reload_selection_from_end(entries, filtered, prev_selected, prev_selected_raw) ==
    IF prev_selected_raw # None
       /\ selected_position_for_raw(entries, filtered, prev_selected_raw[1]) # None
    THEN Len(filtered) - 1
         - selected_position_for_raw(entries, filtered, prev_selected_raw[1])[1]
    ELSE Min(prev_selected, SatSub(Len(filtered), 1))

\* a variant of reload_selection that goes to the first row when the raw is
\* not found
reload_selection_resetting(entries, filtered, prev_selected, prev_selected_raw) ==
    IF prev_selected_raw # None
    THEN unwrap_or(selected_position_for_raw(entries, filtered, prev_selected_raw[1]), 0)
    ELSE 0

\* App::reload, the selection after a successful load: the position of the
\* first visible entry whose raw is the one selected before, else the previous
\* position clamped.  entries and filtered are the new collection and its
\* visible sequence.
reload_selection(entries, filtered, prev_selected, prev_selected_raw) ==
    IF prev_selected_raw # None
    THEN unwrap_or(selected_position_for_raw(entries, filtered, prev_selected_raw[1]),
                   Min(prev_selected, SatSub(Len(filtered), 1)))
    ELSE Min(prev_selected, SatSub(Len(filtered), 1))

\* App::reload, the Ok arm from `let filtered` to sync_selection_with_len
reload_select(a1, filtered, prev_selected, prev_selected_raw) ==
    sync_selection_with_len(
        [a1 EXCEPT !.selected = reload_selection(a1.entries, filtered, prev_selected,
                                                 prev_selected_raw)],
        Len(filtered))

\* App::reload, the Ok arm after refresh_interface_options
reload_refreshed(a1, prev_selected, prev_selected_raw) ==
    reload_select(a1, filtered_indices(a1), prev_selected, prev_selected_raw)

\* App::reload, the end of the Ok arm: the fingerprint capture
reload_capture(a2, fingerprint) ==
    [a2 EXCEPT !.last_fingerprint = fingerprint,
               !.status = "",
               !.io = @ \o <<"read:ok", IoResult("metadata", fingerprint)>>]

\* App::reload, the Ok arm.  f_meta is the file when file_fingerprint is called.
\* prev_selected, prev_selected_raw and prev_iface are taken from a.
reload_loaded(a, entries, f_meta) ==
    reload_capture(
        reload_refreshed(refresh_interface_options([a EXCEPT !.entries = entries],
                                                   a.selected_interface),
                         a.selected, current_selected_raw(a)),
        file_fingerprint(f_meta))

\* a variant of reload_failed that keeps the last-known fingerprint
reload_failed_keeping_fingerprint(a) ==
    [a EXCEPT !.entries = <<>>,
              !.selected = 0,
              !.table_selected = None,
              !.status = StatusFailedRead,
              !.io = @ \o <<"read:err">>]

\* App::reload, the Err arm
reload_failed(a) ==
    [a EXCEPT !.entries = <<>>,
              !.selected = 0,
              !.table_selected = None,
              !.last_fingerprint = None,
              !.status = StatusFailedRead,
              !.io = @ \o <<"read:err">>]

\* App::reload on the result of load_entries: [app, ok], the new App and the
\* returned bool
reload_with(a, loaded, f_meta) ==
    IF loaded # None
    THEN [app |-> reload_loaded(a, loaded[1], f_meta), ok |-> TRUE]
    ELSE [app |-> reload_failed(a), ok |-> FALSE]

\* a variant of reload that restarts the poll timer
reload_restarting_timer(a, f_read, f_meta) ==
    reload_with([a EXCEPT !.watch_elapsed = 0], load_entries(f_read), f_meta)

\* App::reload.  f_read is the file when load_entries reads it.
reload(a, f_read, f_meta) == reload_with(a, load_entries(f_read), f_meta)

\* App::toggle_pause_updates after the flag is flipped
resume_or_pause(a1, f_read, f_meta) ==
    IF ~a1.updates_paused THEN reload(a1, f_read, f_meta).app ELSE a1

\* a variant of toggle_pause_updates that reloads on every transition
toggle_pause_updates_always_reloading(a, f_read, f_meta) ==
    reload([a EXCEPT !.updates_paused = ~@], f_read, f_meta).app

\* App::toggle_pause_updates
toggle_pause_updates(a, f_read, f_meta) ==
    resume_or_pause([a EXCEPT !.updates_paused = ~@], f_read, f_meta)

\* App::maybe_reload, `if self.reload() { self.status = previous_status; }`
keep_status(previous_status, r) ==
    IF r.ok THEN [r.app EXCEPT !.status = previous_status] ELSE r.app

\* App::maybe_reload, the reload of a changed file
reload_changed(a1, f_read, f_meta) == keep_status(a1.status, reload(a1, f_read, f_meta))

\* App::maybe_reload, the state once the fingerprint fetch has returned current
poll_fetched(a, current) ==
    [a EXCEPT !.watch_elapsed = 0, !.io = @ \o <<IoResult("metadata", current)>>]

\* a variant of poll_compare that reloads when the fingerprint fetch fails
poll_compare_reloading_on_error(a1, current, f_read, f_meta) ==
    IF a1.last_fingerprint # current \/ current = None
    THEN reload(a1, f_read, f_meta).app
    ELSE a1

\* a variant of poll_compare that compares the lengths only
poll_compare_len(a1, current, f_read, f_meta) ==
    IF current = None THEN a1
    ELSE IF a1.last_fingerprint = None \/ a1.last_fingerprint[1].len # current[1].len
    THEN reload_changed(a1, f_read, f_meta)
    ELSE a1

\* a variant of poll_compare that takes an absent last-known fingerprint for
\* an unchanged file
poll_compare_trusting_absent(a1, current, f_read, f_meta) ==
    IF current = None THEN a1
    ELSE IF a1.last_fingerprint # None /\ a1.last_fingerprint # current
    THEN reload_changed(a1, f_read, f_meta)
    ELSE a1

\* App::maybe_reload, the comparison: a1 is the App after the fetch, current
\* the fetched fingerprint (None if the fetch failed)
poll_compare(a1, current, f_read, f_meta) ==
    IF current = None THEN a1
    ELSE IF a1.last_fingerprint # current
    THEN reload_changed(a1, f_read, f_meta)
    ELSE a1

\* App::maybe_reload once the fetched fingerprint is current
poll_with(a, current, f_read, f_meta) ==
    poll_compare(poll_fetched(a, current), current, f_read, f_meta)

\* App::maybe_reload once the check is due: the fingerprint fetch and the
\* comparison.  f_poll is the file when the poll fetches its fingerprint.
poll_check(a, f_poll, f_read, f_meta) ==
    poll_with(a, file_fingerprint(f_poll), f_read, f_meta)

\* a variant of maybe_reload that polls while paused
maybe_reload_ignoring_pause(a, f_poll, f_read, f_meta) ==
    IF a.watch_elapsed < PollInterval THEN a
    ELSE poll_check(a, f_poll, f_read, f_meta)

\* a variant of maybe_reload that polls on every call
maybe_reload_ignoring_timer(a, f_poll, f_read, f_meta) ==
    IF a.updates_paused THEN a
    ELSE poll_check(a, f_poll, f_read, f_meta)

\* App::maybe_reload
maybe_reload(a, f_poll, f_read, f_meta) ==
    IF a.updates_paused THEN a
    ELSE IF a.watch_elapsed < PollInterval THEN a
    ELSE poll_check(a, f_poll, f_read, f_meta)

\* run_app, KeyCode::Up | KeyCode::Char('k'), with the visible length
move_up(a, filtered_len) ==
    IF filtered_len > 0
    THEN sync_selection_with_len([a EXCEPT !.selected = SatSub(@, 1)], filtered_len)
    ELSE a

\* run_app, KeyCode::Up | KeyCode::Char('k')
key_up(a) == move_up(a, Len(filtered_indices(a)))

\* run_app, KeyCode::Down | KeyCode::Char('j'), with the visible length
move_down(a, filtered_len) ==
    IF filtered_len > 0
    THEN sync_selection_with_len(
             [a EXCEPT !.selected = Min(@ + 1, SatSub(filtered_len, 1))],
             filtered_len)
    ELSE a

\* run_app, KeyCode::Down | KeyCode::Char('j')
key_down(a) == move_down(a, Len(filtered_indices(a)))

\* a variant that leaves the selection where it is
set_filter_value_keeping_selection(a, field, value) ==
    [a EXCEPT !.filters[field] = trim(value)]

\* App::set_filter_value
set_filter_value(a, field, value) ==
    [a EXCEPT !.filters[field] = trim(value), !.selected = 0]

\* run_app, KeyCode::Enter in input mode: the edited text becomes the criterion.
\* Status messages are modelled without their row counts.
submit_filter(a, field, value) ==
    LET report(a1) ==
            [a1 EXCEPT !.status = IF a1.filters[field] = <<>> THEN "Removed filter"
                                  ELSE "Set filter"]
    IN  report(set_filter_value(a, field, value))

\* a variant of clear_filter that empties every text criterion
clear_filter_all(a, field) ==
    [a EXCEPT !.filters = DefaultFilters, !.selected = 0, !.status = "Cleared filter"]

\* App::clear_filter
clear_filter(a, field) ==
    [set_filter_value(a, field, <<>>) EXCEPT !.status = "Cleared filter"]

\* a variant of clear_filters that also forgets the last-known fingerprint
clear_filters_forgetting_fingerprint(a) ==
    [a EXCEPT !.filters = DefaultFilters,
              !.show_local_src = FALSE,
              !.show_wan_src = TRUE,
              !.flow_filter = "All",
              !.direction_filter = "Both",
              !.selected_interface = default_wan_interface(a.interface_options),
              !.selected = 0,
              !.table_selected = Some(0),
              !.last_fingerprint = None,
              !.status = "Cleared filters"]

\* App::clear_filters
clear_filters(a) ==
    [a EXCEPT !.filters = DefaultFilters,
              !.show_local_src = FALSE,
              !.show_wan_src = TRUE,
              !.flow_filter = "All",
              !.direction_filter = "Both",
              !.selected_interface = default_wan_interface(a.interface_options),
              !.selected = 0,
              !.table_selected = Some(0),
              !.status = "Cleared filters"]

\* a variant of set_selected_interface that leaves the selection where it is
set_selected_interface_keeping_selection(a, interface) ==
    [a EXCEPT !.selected_interface = interface]

\* App::set_selected_interface
set_selected_interface(a, interface) ==
    [a EXCEPT !.selected_interface = interface,
              !.selected = 0,
              !.table_selected = Some(0)]

\* Iterator::position: the 0-based index of name in options, -1 if absent
option_index(options, name) ==
    LET first_of(hits) ==
            IF hits = {} THEN -1 ELSE (CHOOSE i \in hits : \A j \in hits : i <= j) - 1
    IN  first_of({i \in 1..Len(options) : Some(options[i]) = name})

\* App::cycle_interface
cycle_interface(a, forward) ==
    IF a.interface_options = <<>>
    THEN [a EXCEPT !.selected_interface = None, !.status = "No interfaces found in logs"]
    ELSE LET select(next) ==
                 [set_selected_interface(a, IF next < 0 THEN None
                                            ELSE Some(a.interface_options[next + 1]))
                     EXCEPT !.status = "Interface"]
             step(len, idx) ==
                 select(IF forward THEN (IF idx >= len - 1 THEN -1 ELSE idx + 1)
                        ELSE IF idx < 0 THEN len - 1
                        ELSE idx - 1)
         IN  step(Len(a.interface_options),
                  option_index(a.interface_options, a.selected_interface))

\* App::select_all_interfaces
select_all_interfaces(a) ==
    [set_selected_interface(a, None) EXCEPT !.status = "Interface: all"]

\* App::select_default_wan_interface
select_default_wan_interface(a) ==
    [set_selected_interface(a, default_wan_interface(a.interface_options))
        EXCEPT !.status = "Interface"]

\* apply_toggle_target, ToggleTarget::Interface(name)
click_interface(a, name) ==
    [set_selected_interface(a, Some(name)) EXCEPT !.status = "Interface"]

\* App::toggle_show_local_src
toggle_show_local_src(a) ==
    [a EXCEPT !.show_local_src = ~@,
              !.selected = 0,
              !.table_selected = Some(0),
              !.status = IF ~a.show_local_src THEN "Showing local source IP rows"
                         ELSE "Hiding local source IP rows"]

\* App::toggle_show_wan_src
toggle_show_wan_src(a) ==
    [a EXCEPT !.show_wan_src = ~@,
              !.selected = 0,
              !.table_selected = Some(0),
              !.status = IF ~a.show_wan_src THEN "Showing WAN source IP rows"
                         ELSE "Hiding WAN source IP rows"]

\* FlowFilter::next
FlowFilter_next(flow) ==
    CASE flow = "All" -> "LocalToLocal"
      [] flow = "LocalToLocal" -> "LocalToExternal"
      [] flow = "LocalToExternal" -> "All"

\* DirectionFilter::next
DirectionFilter_next(dir) ==
    CASE dir = "Both" -> "In"
      [] dir = "In" -> "Out"
      [] dir = "Out" -> "Forwarded"
      [] dir = "Forwarded" -> "Both"

\* App::cycle_flow_filter
cycle_flow_filter(a) ==
    [a EXCEPT !.flow_filter = FlowFilter_next(@),
              !.selected = 0,
              !.table_selected = Some(0),
              !.status = "Flow filter"]

\* App::cycle_direction_filter
cycle_direction_filter(a) ==
    [a EXCEPT !.direction_filter = DirectionFilter_next(@),
              !.selected = 0,
              !.table_selected = Some(0),
              !.status = "Direction filter"]

\* App::new: the fields before the first reload, then the reload
NewApp ==
    [ entries            |-> <<>>,
      interface_options  |-> <<>>,
      selected_interface |-> None,
      filters            |-> DefaultFilters,
      show_local_src     |-> FALSE,
      show_wan_src       |-> TRUE,
      flow_filter        |-> "All",
      direction_filter   |-> "Both",
      updates_paused     |-> FALSE,
      selected           |-> 0,
      table_selected     |-> Some(0),
      watch_elapsed      |-> 0,
      last_fingerprint   |-> None,
      status             |-> "",
      status_snapshot    |-> "",
      status_since       |-> None,
      io                 |-> <<>> ]

App_new(f_read, f_meta) == reload(NewApp, f_read, f_meta).app

(***************************************************************************)
(* The state machine.                                                      *)
(*   app        the App value                                              *)
(*   fs         the file behind log_path                                   *)
(*   op         the handler (or external step) that made the last step     *)
(*   since_poll ticks since the poll last fetched a fingerprint, or since  *)
(*              startup (saturating at the polling interval)               *)
(* app.io holds the file system calls of the last step's handler.          *)
(***************************************************************************)
VARIABLES app, fs, op, since_poll

vars == <<app, fs, op, since_poll>>

\* the files the external writer can produce within the bounds
RECURSIVE FilesOfLen(_)
FilesOfLen(n) ==
    IF n = 0 THEN {<<>>}
    ELSE {Append(ids, l) : ids \in FilesOfLen(n - 1), l \in 1..Len(LinePool)}

AllFiles ==
    {NoFile} \cup
    {[state |-> st, lines |-> ids, mtime |-> m] :
        st \in {"ok", "denied"},
        ids \in UNION {FilesOfLen(n) : n \in 0..MaxFileLen},
        m \in 0..MaxMtime}

\* A handler's view of the file: the file at its poll fetch, at its read and at
\* its fingerprint capture.  Here the external writer does not step while a
\* handler runs.
Views(f) == {[poll |-> f, read |-> f, meta |-> f]}

\* the handler starts with an empty call log
Cur == [app EXCEPT !.io = <<>>]

Init ==
    /\ fs \in AllFiles
    /\ app = App_new(fs, fs)
    /\ op = "new"
    /\ since_poll = 0

\* time passes
Tick ==
    /\ app' = [Cur EXCEPT !.watch_elapsed = Min(@ + 1, PollInterval),
                          !.status_since = IF @ = None THEN None
                                           ELSE Some(Min(@[1] + 1, StatusLifetime))]
    /\ since_poll' = Min(since_poll + 1, PollInterval)
    /\ op' = "tick"
    /\ fs' = fs

\* the external writer, logrotate or an administrator changes the file
Writer ==
    /\ fs' \in WriterSteps(fs)
    /\ app' = Cur
    /\ op' = "writer"
    /\ since_poll' = since_poll

\* run_app: app.maybe_reload() at the top of the main loop
Poll ==
    \E v \in Views(fs) :
        /\ app' = maybe_reload(Cur, v.poll, v.read, v.meta)
        /\ fs' = v.meta
        /\ op' = "maybe_reload"
        /\ since_poll' = IF app'.io # <<>> THEN 0 ELSE since_poll
    
\* run_app, KeyCode::Char('r')
ManualReload ==
    \E v \in Views(fs) :
        /\ app' = reload(Cur, v.read, v.meta).app
        /\ fs' = v.meta
        /\ op' = "reload"
        /\ since_poll' = since_poll
    
\* run_app, KeyCode::Char('a')
TogglePause ==
    \E v \in Views(fs) :
        /\ app' = toggle_pause_updates(Cur, v.read, v.meta)
        /\ fs' = v.meta
        /\ op' = "toggle_pause_updates"
        /\ since_poll' = since_poll
    
\* a handler that makes no file system call
Ui(name, a) ==
    /\ app' = a
    /\ op' = name
    /\ UNCHANGED <<fs, since_poll>>

KeyUp == Ui("key_up", key_up(Cur))

KeyDown == Ui("key_down", key_down(Cur))

ToggleShowLocal == Ui("toggle_show_local_src", toggle_show_local_src(Cur))

CycleInterface == \E forward \in BOOLEAN : Ui("cycle_interface", cycle_interface(Cur, forward))

\* the texts the operator types into a filter field
FilterInputs ==
    [f \in FilterFields |->
        CASE f = "action" -> {<<>>, <<"b","l","o","c","k"," ">>}
          [] f = "text" -> {<<"8",".","8">>}
          [] OTHER -> {}]

\* run_app, KeyCode::Enter in input mode
SubmitFilter ==
    \E f \in FilterFields : \E value \in FilterInputs[f] :
        Ui("submit_filter", submit_filter(Cur, f, value))

\* handle_modifier_shortcuts, Shift+F(n)
ClearFilter == \E f \in FilterFields : Ui("clear_filter", clear_filter(Cur, f))

\* run_app, KeyCode::Char('c')
ClearFilters == Ui("clear_filters", clear_filters(Cur))

\* run_app, KeyCode::Char('p')
ToggleShowWan == Ui("toggle_show_wan_src", toggle_show_wan_src(Cur))

\* run_app, KeyCode::Char('f')
CycleFlow == Ui("cycle_flow_filter", cycle_flow_filter(Cur))

\* run_app, KeyCode::Char('d')
CycleDirection == Ui("cycle_direction_filter", cycle_direction_filter(Cur))

\* run_app, KeyCode::Char('0')
SelectAllInterfaces == Ui("select_all_interfaces", select_all_interfaces(Cur))

\* run_app, KeyCode::Char('w')
SelectDefaultWan == Ui("select_default_wan_interface", select_default_wan_interface(Cur))

\* apply_toggle_target, a click on an interface of the catalogue
ClickInterface ==
    \E i \in 1..Len(app.interface_options) :
        Ui("click_interface", click_interface(Cur, app.interface_options[i]))

Next ==
    \/ Tick
    \/ Writer
    \/ Poll
    \/ ManualReload
    \/ TogglePause
    \/ KeyUp
    \/ KeyDown
    \/ CycleInterface

Spec == Init /\ [][Next]_vars

(***************************************************************************)
(* The operator's commands.  The file is one of a few readable files and   *)
(* is replaced as a whole; every command that edits the filter state, moves *)
(* the selection or reloads can run.                                       *)
(***************************************************************************)
UiFiles ==
    {[state |-> "ok", lines |-> ids, mtime |-> 0] : ids \in {<<3, 3>>, <<1, 2>>, <<1, 3>>}}

UiInit ==
    /\ fs \in UiFiles
    /\ app = App_new(fs, fs)
    /\ op = "new"
    /\ since_poll = 0

\* logrotate or an administrator replaces the file
UiWriter ==
    /\ fs' \in UiFiles \ {fs}
    /\ app' = Cur
    /\ op' = "writer"
    /\ since_poll' = since_poll

UiNext ==
    \/ UiWriter
    \/ ManualReload
    \/ TogglePause
    \/ KeyUp
    \/ KeyDown
    \/ SubmitFilter
    \/ ClearFilter
    \/ ClearFilters
    \/ ToggleShowLocal
    \/ ToggleShowWan
    \/ CycleFlow
    \/ CycleDirection
    \/ CycleInterface
    \/ SelectAllInterfaces
    \/ SelectDefaultWan
    \/ ClickInterface

UiSpec == UiInit /\ [][UiNext]_vars

(***************************************************************************)
(* Vocabulary of the properties.                                           *)
(***************************************************************************)
\* the filter state: six text criteria, two toggles, flow mode, direction mode
\* and the selected interface
filter_state(a) ==
    [ filters            |-> a.filters,
      show_local_src     |-> a.show_local_src,
      show_wan_src       |-> a.show_wan_src,
      flow_filter        |-> a.flow_filter,
      direction_filter   |-> a.direction_filter,
      selected_interface |-> a.selected_interface ]

\* the steps that can run App::reload
ReloadOps == {"reload", "maybe_reload", "toggle_pause_updates"}

\* the file system calls of a step
Calls(a) == {a.io[i] : i \in 1..Len(a.io)}

\* how many calls of a step have the given outcome
CallCount(a, call) == Cardinality({i \in 1..Len(a.io) : a.io[i] = call})

\* how many times a step has read the file
Reads(a) == CallCount(a, "read:ok") + CallCount(a, "read:err")

\* the poll check of a step has fetched the fingerprint, with this outcome
PollFetched(a, o, call) == o = "maybe_reload" /\ a.io # <<>> /\ a.io[1] = call

\* the time of the last poll check is the same after a step as before it
\* (the model keeps the time elapsed since that check, which a tick advances)
LastCheckKept ==
    app'.watch_elapsed = IF op' = "tick" THEN Min(app.watch_elapsed + 1, PollInterval)
                         ELSE app.watch_elapsed

\* how many entries carry the raw text
RawCount(entries, raw) == Cardinality({i \in 1..Len(entries) : entries[i].raw = raw})

\* no two visible entries carry the same raw text
VisibleRawsDistinct(a) ==
    LET filtered == filtered_indices(a)
    IN  \A i, j \in 1..Len(filtered) :
            a.entries[filtered[i]].raw = a.entries[filtered[j]].raw => i = j

\* the raw text of the visible entry at the selection position, if there is one
raw_at_selection(a) ==
    LET filtered == filtered_indices(a)
    IN  IF a.selected < Len(filtered)
        THEN Some(a.entries[filtered[a.selected + 1]].raw)
        ELSE None

(***************************************************************************)
(* Properties.                                                             *)
(***************************************************************************)
\* C1: reload selection-stability.  In every step that reloads successfully:
\* if, before the step, the selected visible entry had a raw text carried by
\* no other entry, and exactly one entry of the new collection carries that
\* text, then after the step the selection position is at a visible entry
\* with that raw text and that row is the highlighted one.
C1_SelectionStability ==
    [][(/\ op' \in ReloadOps
        /\ "read:ok" \in Calls(app')
        /\ raw_at_selection(app) # None
        /\ RawCount(app.entries, raw_at_selection(app)[1]) = 1
        /\ RawCount(app'.entries, raw_at_selection(app)[1]) = 1)
        => /\ raw_at_selection(app') = raw_at_selection(app)
           /\ app'.table_selected = Some(app'.selected)]_vars

\* C2: a reload that cannot read the file leaves an empty entry collection,
\* selection position 0 with no highlighted row, no last-known fingerprint and
\* a non-empty status; it returns false; the filter state is the one before
\* the step, and so is the Live/Paused state (on a resume: the Live state the
\* toggle has just set).
C2_FailedReload ==
    [][(op' \in ReloadOps /\ "read:err" \in Calls(app'))
        => /\ app'.entries = <<>>
           /\ app'.selected = 0
           /\ app'.table_selected = None
           /\ app'.last_fingerprint = None
           /\ app'.status # ""
           /\ ~reload(Cur, fs, fs).ok
           /\ filter_state(app') = filter_state(app)
           /\ app'.updates_paused = IF op' = "toggle_pause_updates" THEN FALSE
                                    ELSE app.updates_paused]_vars

\* a manual reload in Paused state, with a catalogue from an earlier load and
\* an interface selection other than the default, has failed to read the file
C2_Witness ==
    /\ op = "reload"
    /\ app.io = <<"read:err">>
    /\ app.updates_paused
    /\ app.interface_options # <<>>
    /\ app.selected_interface # default_wan_interface(app.interface_options)

\* C3: in Live state, a poll check whose fingerprint fetch fails reads nothing
\* and changes nothing but the time of the last check: entries, catalogue,
\* selection, filter state, last-known fingerprint and status stay as they were.
C3_FetchFailure ==
    [][PollFetched(app', op', "metadata:err")
        => /\ ~app.updates_paused
           /\ app' = [Cur EXCEPT !.watch_elapsed = 0, !.io = <<"metadata:err">>]]_vars

\* a due poll found no file while entries of an earlier load were on display
C3_Witness ==
    /\ op = "maybe_reload"
    /\ app.io = <<"metadata:err">>
    /\ ~app.updates_paused
    /\ app.entries # <<>>
    /\ app.last_fingerprint # None
    /\ fs = NoFile

\* C4: a poll check in Live state whose fingerprint fetch succeeds reloads
\* exactly when the fetched fingerprint (modification time, length) differs
\* from the last-known one; when they are equal the entries and the selection
\* are unchanged.
C4_ReloadIffChanged ==
    [][PollFetched(app', op', "metadata:ok")
        => /\ ~app.updates_paused
           /\ (Reads(app') > 0) <=> (app.last_fingerprint # file_fingerprint(fs))
           /\ app.last_fingerprint = file_fingerprint(fs)
                => /\ app'.entries = app.entries
                   /\ app'.selected = app.selected
                   /\ app'.table_selected = app.table_selected]_vars

\* a due poll found the fingerprint it knew and left the second row selected
C4_Witness ==
    /\ op = "maybe_reload"
    /\ app.io = <<"metadata:ok">>
    /\ app.last_fingerprint = file_fingerprint(fs)
    /\ app.selected = 1

\* C5 as stated: while Paused a poll step makes no file system call, and the
\* entries, the catalogue, the selection position, the last-known fingerprint
\* and the time of the last check change only in a manual reload or a resume.
C5_PausedOnlyReloadChanges ==
    [][app.updates_paused
        => /\ op' = "maybe_reload" => app'.io = <<>>
           /\ (\/ app'.entries # app.entries
               \/ app'.interface_options # app.interface_options
               \/ app'.selected # app.selected
               \/ app'.last_fingerprint # app.last_fingerprint
               \/ ~LastCheckKept)
                => op' \in {"reload", "toggle_pause_updates"}]_vars

\* C5: while Paused a poll step makes no file system call and changes nothing,
\* whatever the elapsed time and the file; the entries, the catalogue, the
\* last-known fingerprint and the time of the last check change only in a
\* manual reload or a resume, and the selection position changes only in those
\* or in a command of the operator (never in a poll step, by the passage of
\* time or by a change of the file).
C5_PausedNoPoll ==
    [][app.updates_paused
        => /\ op' = "maybe_reload" => app' = Cur
           /\ (\/ app'.entries # app.entries
               \/ app'.interface_options # app.interface_options
               \/ app'.last_fingerprint # app.last_fingerprint
               \/ ~LastCheckKept)
                => op' \in {"reload", "toggle_pause_updates"}
           /\ app'.selected # app.selected
                => op' \notin {"maybe_reload", "tick", "writer"}]_vars

\* a poll step in Paused state did nothing although a check was due and the
\* file's fingerprint is not the last-known one
C5_Witness ==
    /\ op = "maybe_reload"
    /\ app.updates_paused
    /\ app.io = <<>>
    /\ app.watch_elapsed >= PollInterval
    /\ file_fingerprint(fs) # None
    /\ file_fingerprint(fs) # app.last_fingerprint

\* C6: a toggle from Paused to Live reads the file exactly once in the same
\* step, whatever the poll timer and the fingerprint; a toggle from Live to
\* Paused makes no file system call and changes nothing else.
C6_ResumeReloadsOnce ==
    [][op' = "toggle_pause_updates"
        => /\ app'.updates_paused = ~app.updates_paused
           /\ app.updates_paused => Reads(app') = 1
           /\ ~app.updates_paused => app' = [Cur EXCEPT !.updates_paused = TRUE]]_vars

\* a resume has reloaded the file although no poll check was due
C6_Witness ==
    /\ op = "toggle_pause_updates"
    /\ ~app.updates_paused
    /\ app.io = <<"read:ok", "metadata:ok">>
    /\ app.watch_elapsed < PollInterval

\* C7: a manual reload reads the file exactly once, in Live and in Paused
\* state and whatever the poll timer shows, and it changes neither the
\* Live/Paused state nor the time of the last poll check.
C7_ManualReload ==
    [][op' = "reload"
        => /\ Reads(app') = 1
           /\ app'.updates_paused = app.updates_paused
           /\ LastCheckKept]_vars

\* a manual reload has loaded the file in Paused state with a poll check due
C7_Witness ==
    /\ op = "reload"
    /\ app.updates_paused
    /\ app.io = <<"read:ok", "metadata:ok">>
    /\ app.watch_elapsed >= PollInterval
    /\ app.entries # <<>>

C9_RetryOnNextPoll ==
    [][/\ (op' \in ReloadOps /\ "read:err" \in Calls(app'))
            => /\ Reads(app') = 1
               /\ app'.io[Len(app'.io)] = "read:err"
               /\ app'.last_fingerprint = None
       /\ (app.last_fingerprint = None /\ Reads(app') = 0)
            => app'.last_fingerprint = None
       /\ (app.last_fingerprint = None /\ PollFetched(app', op', "metadata:ok"))
            => Reads(app') = 1]_vars

\* a poll check has retried the load of a file that is still unreadable, with
\* nothing loaded since startup
C9_Witness ==
    /\ op = "maybe_reload"
    /\ app.io = <<"metadata:ok", "read:err">>
    /\ fs.state = "denied"
    /\ app.interface_options = <<>>
    /\ app.last_fingerprint = None

\* C10 as stated: a manual reload that follows a successful manual reload of
\* the same file content leaves the entries, the catalogue, the selected
\* interface and the selection position as the first one left them.
C10_ReloadIdempotent ==
    [][(/\ op = "reload" /\ "read:ok" \in Calls(app)
        /\ op' = "reload" /\ "read:ok" \in Calls(app')
        /\ fs' = fs)
        => /\ app'.entries = app.entries
           /\ app'.interface_options = app.interface_options
           /\ app'.selected_interface = app.selected_interface
           /\ app'.selected = app.selected]_vars

\* C10: a manual reload that follows a successful manual reload of the same
\* file content leaves the entries, the catalogue and the selected interface
\* as the first one left them, and the selection position too when no two
\* visible entries carry the same raw text.
C10_ReloadIdempotentUniqueRaw ==
    [][(/\ op = "reload" /\ "read:ok" \in Calls(app)
        /\ op' = "reload" /\ "read:ok" \in Calls(app')
        /\ fs' = fs)
        => /\ app'.entries = app.entries
           /\ app'.interface_options = app.interface_options
           /\ app'.selected_interface = app.selected_interface
           /\ VisibleRawsDistinct(app) => app'.selected = app.selected]_vars

\* a manual reload has left the second of two visible entries with different
\* raw texts selected
C10_Witness ==
    /\ op = "reload"
    /\ app.io = <<"read:ok", "metadata:ok">>
    /\ Len(filtered_indices(app)) = 2
    /\ VisibleRawsDistinct(app)
    /\ app.selected = 1

(***************************************************************************)
(* The filter engine.  The file holds up to two of the lines with          *)
(* addresses, protocols and ports; the operator starts from the widest     *)
(* view (no interface, both toggles on, no criterion) and narrows it one   *)
(* criterion at a time.                                                    *)
(***************************************************************************)
\* how many text criteria are set at a time
MaxCriteria == 2

\* the indices of the lines of RichLinePool in AllLines
RichLineIds == (Len(LinePool) + 1)..(Len(LinePool) + Len(RichLinePool))

FilterFiles ==
    {[state |-> "ok", lines |-> ids, mtime |-> 0] :
        ids \in {<<>>} \cup {<<l>> : l \in RichLineIds}
                 \cup {<<l, m>> : l \in RichLineIds, m \in RichLineIds}}

\* the texts the operator types into the filter fields
FilterTexts ==
    [f \in FilterFields |->
        CASE f = "service" -> {<<"s","s","h">>}
          [] f = "port" -> {<<"2","2">>, <<"+","2","2">>, <<"2">>, <<"0">>, <<"-","0">>,
                            <<"7","0","0","0","0">>}
          [] f = "ip" -> {<<"1","9","2",".","1","6","8">>}
          [] f = "action" -> {<<"b","l","o","c","k">>}
          [] f = "proto" -> {<<"t","c","p">>}
          [] f = "text" -> {<<"d","p","t","=","2","2">>}]

\* the widest view: keys 'l' and '0' after startup
FilterInit ==
    /\ fs \in FilterFiles
    /\ app = select_all_interfaces(toggle_show_local_src(App_new(fs, fs)))
    /\ op = "new"
    /\ since_poll = 0

\* run_app, KeyCode::Enter in input mode, on an empty criterion
SetCriterion ==
    \E f \in FilterFields : \E value \in FilterTexts[f] :
        /\ app.filters[f] = <<>>
        /\ Cardinality({g \in FilterFields : app.filters[g] # <<>>}) < MaxCriteria
        /\ Ui("submit_filter", submit_filter(Cur, f, value))

\* run_app, KeyCode::Char('l'), while local sources are shown
HideLocal == app.show_local_src /\ ToggleShowLocal

\* run_app, KeyCode::Char('p'), while WAN sources are shown
HideWan == app.show_wan_src /\ ToggleShowWan

\* a click on an interface while no interface is selected
PickInterface == app.selected_interface = None /\ ClickInterface

\* run_app, KeyCode::Char('f') once or twice from All
NarrowFlow ==
    /\ app.flow_filter = "All"
    /\ \/ CycleFlow
       \/ Ui("cycle_flow_filter", cycle_flow_filter(cycle_flow_filter(Cur)))

\* run_app, KeyCode::Char('d') once, twice or three times from Both
NarrowDirection ==
    /\ app.direction_filter = "Both"
    /\ \/ CycleDirection
       \/ Ui("cycle_direction_filter", cycle_direction_filter(cycle_direction_filter(Cur)))
       \/ Ui("cycle_direction_filter",
             cycle_direction_filter(cycle_direction_filter(cycle_direction_filter(Cur))))

FilterNext ==
    \/ SetCriterion
    \/ HideLocal
    \/ HideWan
    \/ PickInterface
    \/ NarrowFlow
    \/ NarrowDirection

FilterSpec == FilterInit /\ [][FilterNext]_vars

(***************************************************************************)
(* Loading.  The file is any readable file of up to two lines of AllLines  *)
(* and is replaced as a whole; the operator reloads it.                    *)
(***************************************************************************)
\* the indices of the lines of the first three pools in AllLines
LoadLineIds == 1..(Len(LinePool) + Len(RichLinePool) + Len(MalformedLinePool))

LoadFiles ==
    {[state |-> "ok", lines |-> ids, mtime |-> 0] :
        ids \in {<<>>} \cup {<<l>> : l \in LoadLineIds}
                 \cup {<<l, m>> : l \in LoadLineIds, m \in LoadLineIds}}

LoadInit ==
    /\ fs \in LoadFiles
    /\ app = App_new(fs, fs)
    /\ op = "new"
    /\ since_poll = 0

\* logrotate or an administrator replaces the file
LoadWriter ==
    /\ fs' \in LoadFiles \ {fs}
    /\ app' = Cur
    /\ op' = "writer"
    /\ since_poll' = since_poll

LoadNext == LoadWriter \/ ManualReload

LoadSpec == LoadInit /\ [][LoadNext]_vars

(***************************************************************************)
(* The classifiers.  The file holds up to two of the lines of              *)
(* ProbeLinePool and does not change; the operator reloads it, switches    *)
(* the source toggles and the flow mode, which classify the addresses of   *)
(* the entries, and selects interfaces.                                    *)
(***************************************************************************)
\* the indices of the lines of ProbeLinePool in AllLines
ProbeLineIds == (Len(AllLines) - Len(ProbeLinePool) + 1)..Len(AllLines)

ClassifyFiles ==
    {[state |-> "ok", lines |-> ids, mtime |-> 0] :
        ids \in {<<>>} \cup {<<l>> : l \in ProbeLineIds}
                 \cup {<<l, m>> : l \in ProbeLineIds, m \in ProbeLineIds}}

ClassifyInit ==
    /\ fs \in ClassifyFiles
    /\ app = App_new(fs, fs)
    /\ op = "new"
    /\ since_poll = 0

ClassifyNext ==
    \/ ManualReload
    \/ ToggleShowLocal
    \/ ToggleShowWan
    \/ CycleFlow
    \/ SelectAllInterfaces
    \/ SelectDefaultWan

ClassifySpec == ClassifyInit /\ [][ClassifyNext]_vars

(***************************************************************************)
(* Live tail with an appending writer.  The log writer is a separate       *)
(* process: it can append between any two file system calls of a handler,  *)
(* in particular between the read of load_entries and the fingerprint      *)
(* capture of reload.  It appends a bounded number of lines and then stops.*)
(* The main loop calls maybe_reload on every iteration and waits at most   *)
(* 250 ms for an event, so ticks and polls keep occurring.                 *)
(***************************************************************************)
\* the longest file of the live tail
LiveMaxLen == 3

\* the files one append makes of f
Appended(f) ==
    {[f EXCEPT !.lines = Append(@, l), !.mtime = m] :
        l \in (IF Len(f.lines) < LiveMaxLen THEN 1..Len(LinePool) ELSE {}),
        m \in {f.mtime, Min(f.mtime + 1, MaxMtime)}}

\* the views of a handler during which the writer appends: the file at the
\* poll's fetch, at the read and at the fingerprint capture
AppendingViews(f) ==
    {v \in [poll : {f}, read : {f} \cup Appended(f),
            meta : {f} \cup Appended(f) \cup UNION {Appended(g) : g \in Appended(f)}] :
        /\ v.meta # f
        /\ v.meta \in {v.read} \cup Appended(v.read)}

LiveInit ==
    /\ fs \in {[state |-> "ok", lines |-> ids, mtime |-> 0] :
                   ids \in {<<>>} \cup {<<l>> : l \in 1..Len(LinePool)}}
    /\ app = App_new(fs, fs)
    /\ op = "new"
    /\ since_poll = 0

\* the writer appends a line between two iterations of the main loop
AppendLine ==
    /\ fs' \in Appended(fs)
    /\ app' = Cur
    /\ op' = "writer"
    /\ since_poll' = since_poll

\* run_app: app.maybe_reload() while the writer appends
PollDuringAppend ==
    /\ app.watch_elapsed >= PollInterval
    /\ \E v \in AppendingViews(fs) :
           /\ app' = maybe_reload(Cur, v.poll, v.read, v.meta)
           /\ fs' = v.meta
           /\ op' = "maybe_reload"
           /\ since_poll' = 0

LiveNext == Tick \/ AppendLine \/ Poll \/ PollDuringAppend

(***************************************************************************)
(* The status line.  Every iteration of the main loop draws the screen,    *)
(* and drawing refreshes the lifetime of the status; the file can become   *)
(* missing or unreadable between two iterations.                           *)
(***************************************************************************)
StatusFiles ==
    {NoFile} \cup
    {[state |-> st, lines |-> ids, mtime |-> m] :
        st \in {"ok", "denied"}, ids \in {<<>>, <<1>>, <<1, 2>>}, m \in 0..MaxMtime}

StatusInit ==
    /\ fs \in StatusFiles
    /\ app = App_new(fs, fs)
    /\ op = "new"
    /\ since_poll = 0

StatusWriter ==
    /\ fs' \in StatusFiles \ {fs}
    /\ app' = Cur
    /\ op' = "writer"
    /\ since_poll' = since_poll

\* run_app: terminal.draw(|frame| ui(frame, &mut app)), whose first statement
\* is app.refresh_status_lifetime()
Draw == Ui("ui", refresh_status_lifetime(Cur))

StatusNext == Tick \/ StatusWriter \/ Poll \/ ManualReload \/ Draw \/ ToggleShowLocal

StatusSpec == StatusInit /\ [][StatusNext]_vars

\* Time passes (WF on Tick), and the main loop calls maybe_reload on every
\* iteration whatever the state: polls occur again and again.
LiveSpec == LiveInit /\ [][LiveNext]_vars /\ WF_vars(Tick) /\ []<><<Poll>>_vars

(***************************************************************************)
(* C11..C20                                                                *)
(***************************************************************************)

\* the steps that reload the file; every other step of UiNext but the writer's
\* is a command of the operator
UiCommands ==
    {"submit_filter", "clear_filter", "clear_filters", "toggle_show_local_src",
     "toggle_show_wan_src", "cycle_flow_filter", "cycle_direction_filter",
     "cycle_interface", "select_all_interfaces", "select_default_wan_interface",
     "click_interface"}

\* C11 as stated: whenever any operation, a reload included, changes a part of
\* the filter state, the selection position is 0 afterwards.
C11_AnyOperation ==
    [][filter_state(app') # filter_state(app) => app'.selected = 0]_vars

\* C11, amended: whenever a command of the operator (setting or clearing a text
\* criterion, clearing all filters, a toggle, a cycle or an interface selection)
\* changes a part of the filter state, the selection position is 0 afterwards.
C11_CommandResetsSelection ==
    [][(op' \in UiCommands /\ filter_state(app') # filter_state(app))
           => app'.selected = 0]_vars

\* a text criterion has just been set while the second row was selected: the
\* table widget still holds the old row, the selection position is 0
C11_Witness ==
    /\ op = "submit_filter"
    /\ app.filters["action"] # <<>>
    /\ app.table_selected = Some(1)
    /\ app.selected = 0

\* a step that reloaded the file and read it
ReloadedOk == op' \in ReloadOps /\ "read:ok" \in Calls(app')

\* the raws of the visible entries
VisibleRaws(a) ==
    {a.entries[filtered_indices(a)[i]].raw : i \in 1..Len(filtered_indices(a))}

\* C12: on a successful reload, if no entry of the new visible sequence has raw
\* equal to the text captured before the reload (or nothing was selected), the
\* new selection position is the previous position clamped to the last position
\* of the new visible sequence (0 when it is empty).
C12_ClampWhenNotFound ==
    [][(/\ ReloadedOk
        /\ \/ current_selected_raw(app) = None
           \/ current_selected_raw(app)[1] \notin VisibleRaws(app'))
           => app'.selected = IF filtered_indices(app') = <<>> THEN 0
                              ELSE Min(app.selected, Len(filtered_indices(app')) - 1)]_vars

\* a reload has left the second of two visible rows selected although both have
\* the same raw: the selected raw was not found (a found raw selects the first
\* row that has it), the previous position was kept
C12_Witness ==
    /\ op \in ReloadOps
    /\ "read:ok" \in Calls(app)
    /\ Len(filtered_indices(app)) = 2
    /\ Cardinality(VisibleRaws(app)) = 1
    /\ app.selected = 1

\* C13: after a successful reload the selected interface is the previously
\* selected interface if that name occurs in the new catalogue, and otherwise
\* defaultWanInterface of the new catalogue.
C13_InterfaceAfterReload ==
    [][ReloadedOk =>
           app'.selected_interface =
               IF /\ app.selected_interface # None
                  /\ \E i \in 1..Len(app'.interface_options) :
                         app'.interface_options[i] = app.selected_interface[1]
               THEN app.selected_interface
               ELSE default_wan_interface(app'.interface_options)]_vars

\* a reload has kept a selected interface that is not the default of the new
\* catalogue
C13_Witness ==
    /\ op \in ReloadOps
    /\ "read:ok" \in Calls(app)
    /\ app.selected_interface # None
    /\ app.selected_interface # default_wan_interface(app.interface_options)

\* C14: a reload never changes the six text criteria, the toggles, the flow mode
\* or the direction mode, and when the interface selection is 'no interface' or
\* a name still present in the new catalogue, the selected interface is the same
\* before and after the reload.
C14_ReloadKeepsFilterState ==
    [][ReloadedOk =>
           /\ app'.filters = app.filters
           /\ app'.show_local_src = app.show_local_src
           /\ app'.show_wan_src = app.show_wan_src
           /\ app'.flow_filter = app.flow_filter
           /\ app'.direction_filter = app.direction_filter
           /\ (\/ app.selected_interface = None
               \/ \E i \in 1..Len(app'.interface_options) :
                      app'.interface_options[i] = app.selected_interface[1])
                  => app'.selected_interface = app.selected_interface]_vars

\* C14 for a named interface: the part of C14 that the reload satisfies
C14_ReloadKeepsNamedInterface ==
    [][(ReloadedOk /\ app.selected_interface # None) =>
           /\ app'.filters = app.filters
           /\ app'.show_local_src = app.show_local_src
           /\ app'.show_wan_src = app.show_wan_src
           /\ app'.flow_filter = app.flow_filter
           /\ app'.direction_filter = app.direction_filter
           /\ (\E i \in 1..Len(app'.interface_options) :
                      app'.interface_options[i] = app.selected_interface[1])
                  => app'.selected_interface = app.selected_interface]_vars

\* the criteria of the filter engine, one by one, as the specification lists them
InterfaceCriterion(a, entry) ==
    \/ a.selected_interface = None
    \/ entry.in_iface = a.selected_interface
    \/ entry.out_iface = a.selected_interface

SourceToggles(a, entry) ==
    /\ a.show_local_src \/ ~is_local_ip(entry.src_ip)
    /\ a.show_wan_src \/ ~is_wan_ip(entry.src_ip)

\* case-insensitive substring containment
ContainsFolded(target, term) ==
    contains(to_ascii_lowercase(target), to_ascii_lowercase(term))

\* is the text an unsigned integer in decimal notation: digits, after an
\* optional '+'
IsIntegerText(text) ==
    LET digits == IF text # <<>> /\ text[1] = "+" THEN Tail(text) ELSE text
    IN  digits # <<>> /\ \A i \in 1..Len(digits) : digits[i] \in DigitChars

IntegerOf(text) == DecimalValue(IF text[1] = "+" THEN Tail(text) ELSE text)

\* the port criterion of the specification
PortCriterion(term, entry) ==
    IF IsIntegerText(term)
    THEN \/ entry.src_port = Some(IntegerOf(term))
         \/ entry.dst_port = Some(IntegerOf(term))
    ELSE \/ contains(port_text(entry.src_port), term)
         \/ contains(port_text(entry.dst_port), term)

TextCriterion(field, term, entry) ==
    CASE field = "service" -> ContainsFolded(or_empty(entry.service), term)
      [] field = "port" -> PortCriterion(term, entry)
      [] field = "ip" -> \/ ContainsFolded(or_empty(entry.src_ip), term)
                         \/ ContainsFolded(or_empty(entry.dst_ip), term)
      [] field = "action" -> ContainsFolded(entry.action, term)
      [] field = "proto" -> ContainsFolded(or_empty(entry.proto), term)
      [] field = "text" -> ContainsFolded(entry.raw, term)

Accepted(a, entry) ==
    /\ InterfaceCriterion(a, entry)
    /\ SourceToggles(a, entry)
    /\ matches_flow_filter(a.flow_filter, entry)
    /\ matches_direction_filter(a.direction_filter, entry)
    /\ \A f \in FilterFields :
           a.filters[f] # <<>> => TextCriterion(f, a.filters[f], entry)

\* C15: for every entry collection and filter state, visibleIndices returns, in
\* strictly increasing index order, exactly the indices of the entries that
\* satisfy the interface criterion, the toggles, the flow mode, the direction
\* mode and every non-empty text criterion.
C15_VisibleIndices ==
    /\ \A p, q \in 1..Len(filtered_indices(app)) :
           p < q => filtered_indices(app)[p] < filtered_indices(app)[q]
    /\ {filtered_indices(app)[p] : p \in 1..Len(filtered_indices(app))}
           = {i \in 1..Len(app.entries) : Accepted(app, app.entries[i])}

\* of two entries the second alone is visible, under a selected interface and a
\* text criterion
C15_Witness ==
    /\ Len(app.entries) = 2
    /\ filtered_indices(app) = <<2>>
    /\ app.selected_interface # None
    /\ \E f \in FilterFields : app.filters[f] # <<>>

\* C16: making one criterion more restrictive (setting an empty text criterion,
\* switching a show toggle off, selecting an interface instead of none, moving
\* flow from All or direction from Both) never increases the number of visible
\* indices.
C16_Monotone ==
    [][Len(filtered_indices(app')) <= Len(filtered_indices(app))]_vars

\* the direction mode has just moved from Both to Forwarded in the widest view
\* of two entries, and one of them is left
C16_Witness ==
    /\ op = "cycle_direction_filter"
    /\ app.direction_filter = "Forwarded"
    /\ app.selected_interface = None
    /\ app.show_local_src /\ app.show_wan_src
    /\ app.flow_filter = "All"
    /\ app.filters = DefaultFilters
    /\ Len(app.entries) = 2
    /\ Len(filtered_indices(app)) = 1

\* C17, amended: when the non-empty port criterion is an unsigned decimal
\* integer (digits after an optional '+'), an entry matches iff its source or
\* destination port equals that integer; otherwise iff the criterion is a
\* substring of the decimal text of its source or destination port, an absent
\* port being the empty string.
C17_PortCriterion ==
    \A i \in 1..Len(app.entries) :
        app.filters["port"] # <<>> =>
            Filters_matches(app.filters, app.entries[i])
                = /\ Filters_matches([app.filters EXCEPT !["port"] = <<>>], app.entries[i])
                  /\ PortCriterion(app.filters["port"], app.entries[i])

\* the port criterion "2" is an integer: the entries with ports 22 and 2222 do
\* not match it
C17_Witness ==
    /\ app.filters["port"] = <<"2">>
    /\ \E i \in 1..Len(app.entries) : app.entries[i].dst_port = Some(2222)
    /\ filtered_indices(app) = <<>>

\* is the text an integer in decimal notation with an optional sign
IsSignedIntegerText(text) ==
    LET digits == IF text # <<>> /\ text[1] \in {"+", "-"} THEN Tail(text) ELSE text
    IN  digits # <<>> /\ \A i \in 1..Len(digits) : digits[i] \in DigitChars

SignedIntegerOf(text) ==
    IF text[1] = "-" THEN 0 - DecimalValue(Tail(text)) ELSE IntegerOf(text)

\* C17 as stated, an integer being any decimal integer, signed or not: the
\* criterion "-0" is the integer 0 and would match the entries with port 0.
C17_AnyInteger ==
    \A i \in 1..Len(app.entries) :
        app.filters["port"] # <<>> =>
            Filters_matches(app.filters, app.entries[i])
                = /\ Filters_matches([app.filters EXCEPT !["port"] = <<>>], app.entries[i])
                  /\ IF IsSignedIntegerText(app.filters["port"])
                     THEN \/ app.entries[i].src_port
                                = Some(SignedIntegerOf(app.filters["port"]))
                          \/ app.entries[i].dst_port
                                = Some(SignedIntegerOf(app.filters["port"]))
                     ELSE PortCriterion(app.filters["port"], app.entries[i])

\* C18: clearing one named text criterion sets only that criterion to empty: the
\* other five criteria, both toggles, the flow mode, the direction mode, the
\* selected interface, the entry collection and the Live/Paused state are
\* unchanged.
C18_ClearOneCriterion ==
    [][\A f \in FilterFields :
           (op' = "clear_filter" /\ app' = clear_filter(Cur, f)) =>
               /\ app'.filters[f] = <<>>
               /\ \A g \in FilterFields \ {f} : app'.filters[g] = app.filters[g]
               /\ app'.show_local_src = app.show_local_src
               /\ app'.show_wan_src = app.show_wan_src
               /\ app'.flow_filter = app.flow_filter
               /\ app'.direction_filter = app.direction_filter
               /\ app'.selected_interface = app.selected_interface
               /\ app'.entries = app.entries
               /\ app'.updates_paused = app.updates_paused]_vars

\* a criterion has just been cleared in Paused state while another criterion is
\* set, local sources are shown and the flow and direction modes are specific
C18_Witness ==
    /\ op = "clear_filter"
    /\ app.filters["action"] = <<>>
    /\ app.filters["text"] # <<>>
    /\ app.updates_paused
    /\ app.show_local_src
    /\ app.flow_filter # "All"
    /\ app.direction_filter # "Both"
    /\ app.entries # <<>>

\* the occurrences of name in the in and out positions of entries
Occurrences(entries, name) ==
    Cardinality({i \in 1..Len(entries) : entries[i].in_iface = Some(name)})
    + Cardinality({i \in 1..Len(entries) : entries[i].out_iface = Some(name)})

\* C19: after a successful reload the interface catalogue contains exactly the
\* distinct non-empty inIface and outIface values of the new entry collection,
\* ordered by descending number of occurrences and, for equal counts, by
\* ascending name.
C19_Catalogue ==
    [][ReloadedOk =>
           /\ {app'.interface_options[i] : i \in 1..Len(app'.interface_options)}
                  = {n \in {app'.entries[i].in_iface[1] :
                               i \in {j \in 1..Len(app'.entries) :
                                         app'.entries[j].in_iface # None}}
                            \cup {app'.entries[i].out_iface[1] :
                                     i \in {j \in 1..Len(app'.entries) :
                                               app'.entries[j].out_iface # None}} :
                       n # <<>>}
           /\ \A i, j \in 1..Len(app'.interface_options) :
                  i < j =>
                      \/ Occurrences(app'.entries, app'.interface_options[i])
                            > Occurrences(app'.entries, app'.interface_options[j])
                      \/ /\ Occurrences(app'.entries, app'.interface_options[i])
                               = Occurrences(app'.entries, app'.interface_options[j])
                         /\ StrLess(app'.interface_options[i], app'.interface_options[j])]_vars

\* a reload has put a name with more occurrences before a name that is smaller
\* in name order, from entries of which one has an empty out interface
C19_Witness ==
    /\ op = "reload"
    /\ "read:ok" \in Calls(app)
    /\ Len(app.interface_options) = 2
    /\ StrLess(app.interface_options[2], app.interface_options[1])
    /\ \E i \in 1..Len(app.entries) : app.entries[i].out_iface = Some(<<>>)

\* does the line contain the marker "[UFW " followed later by ']'
HasMarker(line) ==
    \E i \in 1..Len(line) :
        /\ i + Len(UfwMarker) - 1 <= Len(line)
        /\ SubSeq(line, i, i + Len(UfwMarker) - 1) = UfwMarker
        /\ \E j \in (i + Len(UfwMarker))..Len(line) : line[j] = "]"

\* HasMarker of every pool line
MarkedLine == [id \in 1..Len(AllLines) |-> HasMarker(AllLines[id])]

\* the lines of the file that have the marker, in file order
AcceptedLines(f) == SelectSeq(f.lines, LAMBDA id : MarkedLine[id])

\* C20: for every line that does not contain the marker "[UFW " followed later
\* by ']', parse returns absent, and loading a file drops such lines without
\* failing: the loaded collection is exactly the accepted lines of the file in
\* reverse file order (newest first).
C20_LoadDropsUnmarked ==
    [][op' = "reload" =>
           /\ \A k \in 1..Len(fs.lines) :
                  ~MarkedLine[fs.lines[k]] => ParsedLine[fs.lines[k]] = None
           /\ "read:ok" \in Calls(app')
           /\ Len(app'.entries) = Len(AcceptedLines(fs))
           /\ \A k \in 1..Len(app'.entries) :
                  /\ app'.entries[k].raw
                        = AllLines[AcceptedLines(fs)[Len(app'.entries) + 1 - k]]
                  /\ Some(app'.entries[k])
                        = ParsedLine[AcceptedLines(fs)[Len(app'.entries) + 1 - k]]]_vars

\* a reload has loaded two different accepted lines, or one accepted line of a
\* file of two lines whose last line has no marker
C20_Witness ==
    /\ op = "reload"
    /\ Len(fs.lines) = 2
    /\ \/ Len(app.entries) = 2 /\ app.entries[1].raw # app.entries[2].raw
       \/ Len(app.entries) = 1 /\ ~MarkedLine[fs.lines[2]]

(***************************************************************************)
(* C21..C30                                                                *)
(***************************************************************************)

\* the positions at which the literal " kernel:" occurs in the line
KernelAt(line) ==
    {i \in 1..Len(line) :
        /\ i + Len(KernelSep) - 1 <= Len(line)
        /\ SubSeq(line, i, i + Len(KernelSep) - 1) = KernelSep}

\* the timestamp the specification gives an accepted line
SpecTimestamp(line) ==
    IF KernelAt(line) = {} THEN <<>>
    ELSE trim(SubSeq(line, 1, MinOf(KernelAt(line)) - 1))

\* SpecTimestamp of every pool line
TimestampOfLine == [id \in 1..Len(AllLines) |-> SpecTimestamp(AllLines[id])]

\* C21: for every accepted line, the entry's timestamp is the trimmed text
\* preceding the first occurrence of ' kernel:' when the line contains it, and
\* is the empty string when the line does not contain ' kernel:'.
C21_Timestamp ==
    \A k \in 1..Len(app.entries) :
        \A id \in 1..Len(AllLines) :
            app.entries[k].raw = AllLines[id]
                => app.entries[k].timestamp = TimestampOfLine[id]

\* C21 for the lines that contain ' kernel:': the part the parser satisfies
C21_TimestampBeforeKernel ==
    \A k \in 1..Len(app.entries) :
        \A id \in 1..Len(AllLines) :
            (app.entries[k].raw = AllLines[id] /\ TimestampOfLine[id] # <<>>)
                => app.entries[k].timestamp = TimestampOfLine[id]

\* IpAddr::from_str of every address of the pool lines
AddressTable ==
    [ip \in AddressesOf(ParsedLine) |->
        IF ip = None THEN None ELSE parse_ip_addr(trim(ip[1]))]

\* the addresses of the entries
EntryAddresses(a) ==
    UNION {{a.entries[k].src_ip, a.entries[k].dst_ip} : k \in 1..Len(a.entries)}

\* C22: isLocalAddress returns false for an absent input, for the empty string,
\* and for every string that is not a parseable IPv4 or IPv6 address.
C22_UnparseableNotLocal ==
    \A ip \in EntryAddresses(app) :
        (ip = None \/ ip = Some(<<>>) \/ AddressTable[ip] = None) => ~is_local_ip(ip)

\* C22 for an absent input and the empty string: the part is_local_ip satisfies
C22_AbsentOrEmptyNotLocal ==
    \A ip \in EntryAddresses(app) :
        (ip = None \/ ip = Some(<<>>)) => ~is_local_ip(ip)

\* C23: for every valid IP address that is neither unspecified nor multicast,
\* exactly one of isLocalAddress and isWanAddress is true; for every input
\* whatsoever the two are never both true.
C23_LocalXorWan ==
    \A ip \in EntryAddresses(app) :
        /\ ~(is_local_ip(ip) /\ is_wan_ip(ip))
        /\ (/\ AddressTable[ip] # None
            /\ ~is_unspecified(AddressTable[ip][1])
            /\ ~is_multicast(AddressTable[ip][1]))
               => (is_local_ip(ip) # is_wan_ip(ip))

\* WAN sources have just been hidden: of two entries with valid unicast
\* sources, one local and one WAN, the local one is left
C23_Witness ==
    /\ op = "toggle_show_wan_src"
    /\ ~app.show_wan_src /\ app.show_local_src
    /\ app.selected_interface = None
    /\ app.flow_filter = "All"
    /\ Len(app.entries) = 2
    /\ Len(filtered_indices(app)) = 1
    /\ \A k \in 1..2 :
           /\ AddressTable[app.entries[k].src_ip] # None
           /\ ~is_unspecified(AddressTable[app.entries[k].src_ip][1])
           /\ ~is_multicast(AddressTable[app.entries[k].src_ip][1])

\* the name patterns of the specification
HasPrefixIn(lower, prefixes) == \E p \in prefixes : starts_with(lower, p)

ExcludedName(lower) ==
    \/ lower = <<"l","o">>
    \/ HasPrefixIn(lower, {<<"d","o","c","k","e","r">>, <<"v","e","t","h">>,
                           <<"v","i","r","b","r">>, <<"b","r","-">>,
                           <<"t","a","i","l","s","c","a","l","e">>, <<"t","u","n">>,
                           <<"t","a","p">>, <<"w","g">>})

IncludedName(lower) ==
    \/ HasPrefixIn(lower, {<<"e","n">>, <<"e","t","h">>, <<"w","l">>,
                           <<"w","w","a","n">>, <<"p","p","p">>})
    \/ \E i \in 1..(Len(lower) - 2) : SubSeq(lower, i, i + 2) = <<"w","a","n">>

CandidateName(name) ==
    /\ ~ExcludedName(to_ascii_lowercase(name))
    /\ IncludedName(to_ascii_lowercase(name))

\* C24: defaultWanInterface returns the first catalogue entry that satisfies
\* isWanCandidateInterface (an excluded name is never a candidate even if it
\* also matches an inclusion pattern); if no entry is a candidate it returns the
\* first catalogue entry; if the catalogue is empty it returns absent.
C24_DefaultWanInterface ==
    [][op' = "select_default_wan_interface" =>
           /\ app'.interface_options = app.interface_options
           /\ \/ /\ app.interface_options = <<>>
                  /\ app'.selected_interface = None
              \/ /\ app.interface_options # <<>>
                  /\ \A i \in 1..Len(app.interface_options) :
                         ~CandidateName(app.interface_options[i])
                  /\ app'.selected_interface = Some(app.interface_options[1])
              \/ \E i \in 1..Len(app.interface_options) :
                     /\ CandidateName(app.interface_options[i])
                     /\ \A j \in 1..(i - 1) : ~CandidateName(app.interface_options[j])
                     /\ app'.selected_interface = Some(app.interface_options[i])]_vars

\* the default interface has just been selected from a catalogue in which the
\* excluded name wgwan0, which contains "wan", comes before it
C24_Witness ==
    /\ op = "select_default_wan_interface"
    /\ \E i, j \in 1..Len(app.interface_options) :
           /\ i < j
           /\ app.interface_options[i] = <<"w","g","w","a","n","0">>
           /\ app.selected_interface = Some(app.interface_options[j])

\* C25: matchesFlow is true for every entry under All, true under LocalToLocal
\* iff source and destination are both local addresses, and true under
\* LocalToExternal iff the source is local and the destination is a WAN
\* address; no entry matches both LocalToLocal and LocalToExternal.
C25_MatchesFlow ==
    \A k \in 1..Len(app.entries) :
        /\ matches_flow_filter("All", app.entries[k])
        /\ matches_flow_filter("LocalToLocal", app.entries[k])
              = (is_local_ip(app.entries[k].src_ip) /\ is_local_ip(app.entries[k].dst_ip))
        /\ matches_flow_filter("LocalToExternal", app.entries[k])
              = (is_local_ip(app.entries[k].src_ip) /\ is_wan_ip(app.entries[k].dst_ip))
        /\ ~(/\ matches_flow_filter("LocalToLocal", app.entries[k])
             /\ matches_flow_filter("LocalToExternal", app.entries[k]))

\* the flow mode has just become LocalToExternal: of two entries with local
\* sources, the one with a WAN destination is visible, the one with a
\* destination that is neither local nor WAN is not
C25_Witness ==
    /\ op = "cycle_flow_filter"
    /\ app.flow_filter = "LocalToExternal"
    /\ Len(app.entries) = 2
    /\ Len(filtered_indices(app)) = 1
    /\ \A k \in 1..2 :
           is_local_ip(app.entries[k].src_ip) /\ ~is_local_ip(app.entries[k].dst_ip)

\* the data that a reload writes
loaded_data(a) ==
    [ entries           |-> a.entries,
      interface_options |-> a.interface_options,
      last_fingerprint  |-> a.last_fingerprint ]

\* C26: the entry collection, the interface catalogue and the last-known
\* fingerprint are modified only by a reload (manual, poll-triggered, on
\* resume); every filter, toggle, flow/direction cycle, interface selection,
\* filter clearing, selection move and pause operation leaves them unchanged.
C26_SingleWriter ==
    [][/\ loaded_data(app') # loaded_data(app)
           => (op' \in ReloadOps /\ Reads(app') = 1)
       /\ (\/ op' \in UiCommands \cup {"key_up", "key_down", "writer"}
           \/ (op' = "toggle_pause_updates" /\ app'.updates_paused))
           => loaded_data(app') = loaded_data(app)]_vars

\* a command has run after the file was replaced: the loaded entries and the
\* last-known fingerprint are still those of the old file
C26_Witness ==
    /\ op \in UiCommands
    /\ app.entries # <<>>
    /\ app.last_fingerprint # None
    /\ app.last_fingerprint # file_fingerprint(fs)

EntryInterfaces(a) ==
    {n \in UNION {{a.entries[k].in_iface, a.entries[k].out_iface} : k \in 1..Len(a.entries)} :
        n # None /\ n # Some(<<>>)}

\* the names of the catalogue, as options
CatalogueNames(a) == {Some(a.interface_options[i]) : i \in 1..Len(a.interface_options)}

\* C28: in every state reached after any reload has completed, successful or
\* failed, the interface catalogue is exactly the set of non-empty interface
\* names occurring in the current entry collection, and the selected interface
\* is either none or a member of that catalogue.
C28_CatalogueConsistent ==
    /\ CatalogueNames(app) = EntryInterfaces(app)
    /\ app.selected_interface = None \/ app.selected_interface \in CatalogueNames(app)

\* C28 after a successful reload, and the membership of the selected interface
\* in every state: the part the reload satisfies
C28_CatalogueAfterLoad ==
    /\ app.last_fingerprint # None => CatalogueNames(app) = EntryInterfaces(app)
    /\ app.selected_interface = None \/ app.selected_interface \in CatalogueNames(app)

\* the newest-first parse of the file
NewestFirstParse(f) ==
    [k \in 1..Len(AcceptedLines(f)) |->
        ParsedLine[AcceptedLines(f)[Len(AcceptedLines(f)) + 1 - k]][1]]

\* C29: in Live state, with a writer that may append at any moment, including
\* between a reload's read of the file and its capture of the fingerprint, once
\* the writer stops and poll ticks keep occurring, the entry collection
\* eventually equals the newest-first parse of the file's final content.
C29_LiveTailConverges == <>[](app.entries = NewestFirstParse(fs))

\* the last-known fingerprint eventually equals that of the final content
C29_FingerprintConverges == <>[](app.last_fingerprint = file_fingerprint(fs))

\* a reload read the file before an append and captured the fingerprint after
\* it: the entries are those of the shorter file, the fingerprint that of the
\* longer one
C29_StaleEntries ==
    /\ op = "maybe_reload"
    /\ "read:ok" \in Calls(app)
    /\ app.last_fingerprint = file_fingerprint(fs)
    /\ app.entries # NewestFirstParse(fs)

\* the most recent reload attempt failed and none has succeeded since: only the
\* Err arm of reload leaves the last-known fingerprint absent
LastReloadFailed == app.last_fingerprint = None

\* C30: in every state where the most recent reload attempt failed and no
\* reload has succeeded since, the status is a read-failure message, also after
\* the status lifetime timer has run and after poll ticks whose fingerprint
\* fetch fails.
C30_FailureVisible == LastReloadFailed => app.status = StatusFailedRead

\* C30 with no operator command: the read failure has been reported, the status
\* lifetime has run out and the status line is empty again
C30_FailureExpired ==
    [][(op' \in {"ui", "tick", "maybe_reload"} /\ LastReloadFailed')
           => (app'.status = StatusFailedRead
               \/ (op' = "ui" /\ app.status = StatusFailedRead /\ app.status_since # None
                   /\ app.status_since[1] >= StatusLifetime)
               \/ app.status # StatusFailedRead)]_vars

\* every failed reload sets the read-failure status
C30_FailureReported ==
    [][(op' \in ReloadOps /\ "read:err" \in Calls(app')) => app'.status = StatusFailedRead]_vars

\* the status of a failed reload has expired while the file is still missing:
\* the poll's fingerprint fetch fails and the view is empty without a message
C30_SilentFailure ==
    /\ op = "maybe_reload"
    /\ "metadata:err" \in Calls(app)
    /\ LastReloadFailed
    /\ app.entries = <<>>
    /\ app.status = ""

====
